---- MODULE Spec2Model ----
(***************************************************************************)
(* Address resolution and per-directory BUILD file parsing of              *)
(* pants.engine.internals.build_files.                                     *)
(*                                                                         *)
(* Paths are sequences of path components: "a/b" is <<"a", "b">>, the      *)
(* empty string (the spec_path of the repository root) is <<>> and the     *)
(* string "." is <<".">>.                                                  *)
(***************************************************************************)
EXTENDS Integers, Sequences, FiniteSets, TLC

\* Depth of the directory chain a, a/b, ... below the repository root.
MaxDepth == 2
\* Number of callers of a session that resolves directories.
NumCallers == 1
\* Number of callers of a session that shares its requests.
NumConcurrent == 2

ROOT == <<>>
DOT == <<".">>

\* The value None of an optional field.
None == [none |-> TRUE]

(***************************************************************************)
(* pathlib.PurePath and os.path, as parse_address_family uses them.        *)
(***************************************************************************)
\* PurePath(path).parts: "." and "" both have no parts.
PurePathParts(path) == IF path = DOT THEN <<>> ELSE path

\* str(PurePath): a path without parts prints as ".".
PurePathStr(parts) == IF parts = <<>> THEN DOT ELSE parts

\* ParentDirs with the directory itself as the first of its parents.
ParentDirsWithSelf(path) ==
    LET parts == IF path = DOT THEN <<>> ELSE path
    IN  [i \in 1..(Len(parts) + 1) |->
            IF Len(parts) + 1 - i = 0 THEN DOT ELSE SubSeq(parts, 1, Len(parts) + 1 - i)]

\* tuple(PurePath(directory.path).parents) mapped through str(): the keys of
\* the ancestors, nearest first, ending in "." for every non-root directory.
ParentDirs(path) ==
    LET parts == PurePathParts(path)
    IN  [i \in 1..Len(parts) |-> PurePathStr(SubSeq(parts, 1, Len(parts) - i))]

(***************************************************************************)
(* The repository: declaration files and synthetic targets per directory.  *)
(***************************************************************************)
Chain == <<"a", "b", "c", "d", "e">>

\* The directories of the repository: the root and the chain a, a/b, ... below it.
TreeDirs == {SubSeq(Chain, 1, n) : n \in 0..MaxDepth}

Target(name) == [op |-> "target", key |-> name, val |-> ""]
SetDefaults(alias, v) == [op |-> "defaults", key |-> alias, val |-> v]
SetDependentsRules(r) == [op |-> "dependents_rules", key |-> "", val |-> r]
SetDependenciesRules(r) == [op |-> "dependencies_rules", key |-> "", val |-> r]
Raise == [op |-> "raise", key |-> "", val |-> ""]

File(name, stmts) == [path |-> name, stmts |-> stmts]
Synthetic(name, targets) == [path |-> <<name>>, targets |-> targets, applied |-> <<>>]

\* What one directory may hold: its declaration files, in the order the file
\* read returns them, and its synthetic address maps.
Content(files, synthetic) == [files |-> files, synthetic |-> synthetic]

NoContent == Content(<<>>, <<>>)
PlainContent == Content(<<File("BUILD", <<Target("lib")>>)>>, <<>>)
MutatingContent(v, r) ==
    Content(<<File("BUILD", <<SetDefaults("tgt", v), SetDependentsRules(r \o "in"),
                              SetDependenciesRules(r \o "out"), Target("lib")>>)>>, <<>>)
TwoFileContent ==
    Content(<<File("BUILD", <<SetDefaults("tgt", "20"), Target("lib")>>),
              File("BUILD.b", <<Target("lib2"), SetDefaults("tgt", "30"),
                                SetDefaults("other", "1")>>)>>,
            <<Synthetic("synth", <<"syn">>)>>)
DuplicateContent ==
    Content(<<File("BUILD", <<Target("lib")>>),
              File("BUILD.b", <<Target("lib2"), Target("lib")>>)>>, <<>>)
FailingContent ==
    Content(<<File("BUILD", <<Target("lib"), SetDefaults("tgt", "40")>>),
              File("BUILD.b", <<Target("lib2"), Raise>>)>>, <<>>)
\* A directory that sets both rule sets and declares lib.
RuledContent(dependents, dependencies) ==
    Content(<<File("BUILD", <<SetDependentsRules(dependents),
                              SetDependenciesRules(dependencies), Target("lib")>>)>>, <<>>)
\* Defaults and rules set in two files, each file setting what the other does
\* not.
SplitContent ==
    Content(<<File("BUILD", <<SetDefaults("tgt", "50"), SetDependentsRules("in1"),
                              Target("lib")>>),
              File("BUILD.b", <<SetDefaults("other", "2"), SetDependenciesRules("out2"),
                                Target("lib2")>>)>>, <<>>)
\* The same directory with its two files read in the other order.
ReversedContent(content) ==
    Content(<<content.files[2], content.files[1]>>, content.synthetic)
SyntheticOnlyContent == Content(<<>>, <<Synthetic("synth", <<"syn">>)>>)
SyntheticContent ==
    Content(<<File("BUILD", <<Target("lib")>>)>>, <<Synthetic("synth", <<"syn">>)>>)
SyntheticDuplicateContent ==
    Content(<<File("BUILD", <<Target("lib")>>)>>, <<Synthetic("synth", <<"lib">>)>>)

(***************************************************************************)
(* Defaults, dependency rules and the parse of one declaration file.       *)
(***************************************************************************)
\* BuildFileDefaults({}): no default for any target alias.
EmptyDefaults == [a \in {} |-> ""]

\* BuildFileDefaultsParserState.create(path, defaults, ...): the builder
\* starts from the defaults it is given.
CreateDefaultsParserState(path, defaults) == defaults

\* create_parser_state(path, parent_rules) of the installed rule
\* implementation: the builder starts from the parent's rules, from no rule
\* when there is no parent rule set.
CreateRulesParserState(path, parent_rules) ==
    IF parent_rules = None THEN [rules |-> ""] ELSE [rules |-> parent_rules.rules]

\* The state threaded through the parse of a directory's files.
ParserState(defaults, dependents, dependencies) ==
    [defaults |-> defaults, dependents |-> dependents, dependencies |-> dependencies,
     names |-> <<>>, error |-> None]

\* An exception: its type, the fixed text of its message and the values the
\* message is formatted with, in their order.
Error(type, text, args) == [type |-> type, text |-> text, args |-> args]

ParseError(path) == Error("ParseError", "error parsing BUILD file", <<path>>)
DuplicateNameError(dir, name) ==
    Error("DuplicateNameError", "a target already exists with this name", <<dir, <<name>>>>)

InSeq(x, seq) == \E i \in 1..Len(seq) : seq[i] = x

\* One statement of a declaration file, evaluated against the builders.
EvalStatement(path, stmt, st) ==
    CASE stmt.op = "target" ->
            IF InSeq(stmt.key, st.names)
            THEN [st EXCEPT !.error = DuplicateNameError(path, stmt.key)]
            ELSE [st EXCEPT !.names = Append(@, stmt.key)]
      [] stmt.op = "defaults" ->
            [st EXCEPT !.defaults = (stmt.key :> stmt.val) @@ @]
      [] stmt.op = "dependents_rules" ->
            IF st.dependents = None THEN st
            ELSE [st EXCEPT !.dependents = [rules |-> stmt.val]]
      [] stmt.op = "dependencies_rules" ->
            IF st.dependencies = None THEN st
            ELSE [st EXCEPT !.dependencies = [rules |-> stmt.val]]
      [] OTHER -> [st EXCEPT !.error = ParseError(path)]

RECURSIVE EvalStatements(_, _, _, _)
EvalStatements(path, stmts, i, st) ==
    IF i > Len(stmts) \/ st.error # None THEN st
    ELSE EvalStatements(path, stmts, i + 1, EvalStatement(path, stmts[i], st))

\* AddressMap.parse(fc.path, content, parser, prelude_symbols,
\* defaults_parser_state, dependents_rules_parser_state,
\* dependencies_rules_parser_state): the builders after the file, and the
\* file's address map or the error the parse raises.
AddressMapParse(path, stmts, st) ==
    EvalStatements(path, stmts, 1, [st EXCEPT !.names = <<>>])

\* ParseFiles giving every file builders of its own: what a file sets is not
\* seen after it.
RECURSIVE ParseFilesApart(_, _, _, _, _)
ParseFilesApart(dir, files, i, st, maps) ==
    IF i > Len(files) \/ st.error # None
    THEN [state |-> st, address_maps |-> maps]
    ELSE LET path == dir \o <<files[i].path>>
             after == AddressMapParse(path, files[i].stmts, st)
         IN  ParseFilesApart(dir, files, i + 1,
                             IF after.error = None THEN st ELSE after,
                             IF after.error = None
                             THEN Append(maps, [path |-> path, names |-> after.names])
                             ELSE maps)

\* The list comprehension over digest_contents: the files one after another,
\* threading the same builders; the first error ends it.
RECURSIVE ParseFiles(_, _, _, _, _)
ParseFiles(dir, files, i, st, maps) ==
    IF i > Len(files) \/ st.error # None
    THEN [state |-> st, address_maps |-> maps]
    ELSE LET path == dir \o <<files[i].path>>
             after == AddressMapParse(path, files[i].stmts, st)
         IN  ParseFiles(dir, files, i + 1, after,
                        IF after.error = None
                        THEN Append(maps, [path |-> path, names |-> after.names])
                        ELSE maps)

\* get_frozen_defaults() of the defaults builder.
GetFrozenDefaults(defaults_parser_state) == defaults_parser_state

\* `state and state.get_frozen_dependency_rules()`: None without a builder.
GetFrozenDependencyRules(rules_parser_state) ==
    IF rules_parser_state = None THEN None ELSE [rules |-> rules_parser_state.rules]

\* The loop over address_maps x synthetic_address_maps: every synthetic map has
\* apply_defaults(frozen_defaults) called once per file-backed address map.
ProcessSynthetic(address_maps, synthetic_address_maps, frozen_defaults) ==
    [j \in 1..Len(synthetic_address_maps) |->
        [path |-> synthetic_address_maps[j].path,
         names |-> synthetic_address_maps[j].targets,
         applied |-> [i \in 1..Len(address_maps) |-> frozen_defaults]]]

\* The names that two different address maps of the tuple both declare.
DuplicatedNames(maps) ==
    {n \in UNION {{maps[i].names[j] : j \in 1..Len(maps[i].names)} : i \in 1..Len(maps)} :
        \E i, j \in 1..Len(maps) :
            i # j /\ InSeq(n, maps[i].names) /\ InSeq(n, maps[j].names)}

\* AddressFamily.create(spec_path, address_maps, defaults, dependents_rules,
\* dependencies_rules): the snapshot, or the duplicate-name error.
AddressFamilyCreate(spec_path, address_maps, defaults, dependents_rules, dependencies_rules) ==
    IF DuplicatedNames(address_maps) # {}
    THEN [error |-> DuplicateNameError(spec_path,
                        CHOOSE n \in DuplicatedNames(address_maps) : TRUE)]
    ELSE [error |-> None,
          family |-> [namespace |-> spec_path,
                      address_maps |-> address_maps,
                      defaults |-> defaults,
                      dependents_rules |-> dependents_rules,
                      dependencies_rules |-> dependencies_rules]]

(***************************************************************************)
(* The session: the engine's memoized requests and their callers.          *)
(***************************************************************************)
VARIABLES
    fs,         \* the declaration files and synthetic targets of every directory
    rulesImpl,  \* build_file_dependency_rules_class is not None
    node,       \* per AddressFamilyDir: where its parse_address_family run is
    seed,       \* per AddressFamilyDir: defaults, dependents_rules and
                \* dependencies_rules as they are when the builders are created
    result,     \* per AddressFamilyDir: the memoized outcome of the run
    caller,     \* per caller: its request and what it has observed
    reads,      \* per directory: the file reads done for it
    evals,      \* per directory: the statement evaluations done for it
    exists,     \* the files and the directories the globs of the session match
    addr,       \* the address being resolved: its input, MaybeAddress and Address
    globs,      \* the Paths requests maybe_resolve_address has made
    syntheticMaps,  \* per AddressFamilyDir: the SyntheticAddressMaps its
                    \* request returned, as they are now
    rule,       \* the rule that runs for a requester: its request and outcome
    prelude,    \* evaluate_preludes: the prelude files and its outcome
    go          \* the Go test rules: the call that runs and its outcome

vars == <<go, fs, rulesImpl, node, seed, result, caller, reads, evals, exists, addr, globs,
          syntheticMaps, rule, prelude>>

\* The AddressFamilyDir values of the session: spec_path of every directory,
\* and "." as the parents of PurePath name the root.
Keys == TreeDirs \cup {DOT}
Callers == DOMAIN caller

\* The directory an AddressFamilyDir names: os.path.join(path, pattern) for
\* "." and for "" glob the files of the repository root.
DirOf(key) == PurePathParts(key)

\* OptionalAddressFamily(path, address_family) and a raised exception, as the
\* outcome of one request.
OptionalAddressFamily(path, address_family) ==
    [kind |-> "value", path |-> path, address_family |-> address_family, error |-> None]
Raised(error) == [kind |-> "raised", path |-> <<>>, address_family |-> None, error |-> error]

Seed(defaults, dependents_rules, dependencies_rules) ==
    [defaults |-> defaults, dependents_rules |-> dependents_rules,
     dependencies_rules |-> dependencies_rules]

IdleCaller == [pc |-> "idle", key |-> ROOT, val |-> None, out |-> None]

(***************************************************************************)
(* parse_address_family and ensure_address_family.                         *)
(***************************************************************************)
ResolveError(text, args) == Error("ResolveError", text, args)

\* NoDeclarations with `or` for `and`.
NoDeclarationsEither(content) == content.files = <<>> \/ content.synthetic = <<>>

\* NoDeclarations without the early return: no directory counts as empty.
NoDeclarationsNever(content) == FALSE

\* `if not digest_contents and not synthetic_address_maps`.
NoDeclarations(content) == content.files = <<>> /\ content.synthetic = <<>>

\* SelectSeed without its `break`: the last parent with an address family wins.
SelectSeedFurthest(maybe_parents) ==
    LET having == {i \in 1..Len(maybe_parents) : maybe_parents[i].address_family # None}
    IN  IF having = {} THEN Seed(EmptyDefaults, None, None)
        ELSE LET last == CHOOSE i \in having : \A j \in having : j <= i
                 family == maybe_parents[last].address_family
             IN  Seed(family.defaults, family.dependents_rules, family.dependencies_rules)

\* The loop over maybe_parents: the first one, in the order of parent_dirs,
\* that has an address family supplies defaults and both rule sets; without
\* one they stay BuildFileDefaults({}), None and None.
SelectSeed(maybe_parents) ==
    LET having == {i \in 1..Len(maybe_parents) : maybe_parents[i].address_family # None}
    IN  IF having = {} THEN Seed(EmptyDefaults, None, None)
        ELSE LET first == CHOOSE i \in having : \A j \in having : i <= j
                 family == maybe_parents[first].address_family
             IN  Seed(family.defaults, family.dependents_rules, family.dependencies_rules)

\* CreateParserStates creating the rule builders without an implementation.
CreateParserStatesAlways(path, s, impl) ==
    ParserState(CreateDefaultsParserState(path, s.defaults),
                CreateRulesParserState(path, s.dependents_rules),
                CreateRulesParserState(path, s.dependencies_rules))

\* CreateParserStates with the two rule sets of the seed exchanged.
CreateParserStatesCrossed(path, s, impl) ==
    ParserState(CreateDefaultsParserState(path, s.defaults),
                IF impl THEN CreateRulesParserState(path, s.dependencies_rules) ELSE None,
                IF impl THEN CreateRulesParserState(path, s.dependents_rules) ELSE None)

\* The parser states parse_address_family creates from the seed: the rule
\* builders only when a rule implementation is installed, dependents from
\* dependents and dependencies from dependencies.
CreateParserStates(path, s, impl) ==
    ParserState(CreateDefaultsParserState(path, s.defaults),
                IF impl THEN CreateRulesParserState(path, s.dependents_rules) ELSE None,
                IF impl THEN CreateRulesParserState(path, s.dependencies_rules) ELSE None)

\* CreateFamily passing only the file-backed address maps to the family.
CreateFamilyWithoutSynthetic(path, parsed, synthetic_address_maps) ==
    LET created == AddressFamilyCreate(path, parsed.address_maps,
                                       GetFrozenDefaults(parsed.state.defaults),
                                       GetFrozenDependencyRules(parsed.state.dependents),
                                       GetFrozenDependencyRules(parsed.state.dependencies))
    IN  IF created.error # None THEN Raised(created.error)
        ELSE OptionalAddressFamily(path, created.family)

\* The end of parse_address_family, once every file is parsed: freeze the
\* builders, process the synthetic maps against every file's address map, and
\* create the family of the file-backed and the synthetic address maps.
CreateFamily(path, parsed, synthetic_address_maps) ==
    LET frozen_defaults == GetFrozenDefaults(parsed.state.defaults)
        frozen_dependents_rules == GetFrozenDependencyRules(parsed.state.dependents)
        frozen_dependencies_rules == GetFrozenDependencyRules(parsed.state.dependencies)
        synthetic == ProcessSynthetic(parsed.address_maps, synthetic_address_maps,
                                      frozen_defaults)
        created == AddressFamilyCreate(path, parsed.address_maps \o synthetic, frozen_defaults,
                                       frozen_dependents_rules, frozen_dependencies_rules)
    IN  IF created.error # None THEN Raised(created.error)
        ELSE OptionalAddressFamily(path, created.family)

\* ParseDeclarations swallowing the exception of a file and keeping the rest.
ParseDeclarationsKeepingPartial(path, s, content, impl) ==
    CreateFamily(path,
                 ParseFiles(DirOf(path), content.files, 1,
                            CreateParserStates(path, s, impl), <<>>),
                 content.synthetic)

\* parse_address_family from the creation of the parser states to its return:
\* an exception of AddressMap.parse leaves the function, otherwise the family
\* is created.
ParseDeclarations(path, s, content, impl) ==
    LET parsed == ParseFiles(DirOf(path), content.files, 1,
                             CreateParserStates(path, s, impl), <<>>)
    IN  IF parsed.state.error # None THEN Raised(parsed.state.error)
        ELSE CreateFamily(path, parsed, content.synthetic)

\* The SyntheticAddressMaps of a directory as their request returns them: no
\* defaults applied yet.
SyntheticAddressMaps(content) ==
    [address_maps |->
        [j \in 1..Len(content.synthetic) |->
            [path |-> content.synthetic[j].path,
             names |-> content.synthetic[j].targets,
             applied |-> <<>>]]]

\* The synthetic address maps after the run of parse_address_family:
\* process_declared_targets and apply_defaults return nothing and change the
\* maps they are called on; an exception of AddressMap.parse leaves the
\* function before they are called.
SyntheticAfter(path, s, content, impl) ==
    LET parsed == ParseFiles(DirOf(path), content.files, 1,
                             CreateParserStates(path, s, impl), <<>>)
    IN  IF parsed.state.error # None THEN SyntheticAddressMaps(content)
        ELSE [address_maps |->
                ProcessSynthetic(parsed.address_maps, content.synthetic,
                                 GetFrozenDefaults(parsed.state.defaults))]

\* Get(...) of the engine: a request that is not yet known starts its run, a
\* known one is shared.
EngineGet(n, keys) == [k \in Keys |-> IF k \in keys /\ n[k] = "none" THEN "start" ELSE n[k]]

ParentKeys(key) == {ParentDirs(key)[i] : i \in 1..Len(ParentDirs(key))}

\* The first await of parse_address_family returns: the prelude symbols it is
\* given exist, the files are read and the synthetic targets fetched. A
\* directory without either returns the empty marker; one without parent
\* directories runs to its end; any other requests all its parents together.
ReadInputs(k) ==
    LET content == fs[DirOf(k)]
        s == Seed(EmptyDefaults, None, None)
    IN  /\ node[k] = "start"
        /\ prelude.pc = "done" /\ prelude.out.kind = "value"
        /\ reads' = [reads EXCEPT ![DirOf(k)] = @ + 1]
        /\ IF NoDeclarations(content)
           THEN /\ node' = [node EXCEPT ![k] = "done"]
                /\ result' = [result EXCEPT ![k] = OptionalAddressFamily(k, None)]
                /\ syntheticMaps' = [syntheticMaps EXCEPT ![k] = SyntheticAddressMaps(content)]
                /\ UNCHANGED <<seed, evals>>
           ELSE IF Len(ParentDirs(k)) = 0
           THEN /\ node' = [node EXCEPT ![k] = "done"]
                /\ seed' = [seed EXCEPT ![k] = s]
                /\ result' = [result EXCEPT ![k] = ParseDeclarations(k, s, content, rulesImpl)]
                /\ syntheticMaps' = [syntheticMaps EXCEPT ![k] =
                                    SyntheticAfter(k, s, content, rulesImpl)]
                /\ evals' = [evals EXCEPT ![DirOf(k)] = @ + 1]
           ELSE /\ node' = EngineGet([node EXCEPT ![k] = "await"], ParentKeys(k))
                /\ syntheticMaps' = [syntheticMaps EXCEPT ![k] = SyntheticAddressMaps(content)]
                /\ UNCHANGED <<seed, result, evals>>
        /\ UNCHANGED <<go, fs, rulesImpl, caller, exists, addr, globs, rule, prelude>>

\* The MultiGet of the parents returns: all of them have a result.
ParentsResolved(k) ==
    LET parents == ParentDirs(k)
        s == SelectSeed([i \in 1..Len(parents) |-> result[parents[i]]])
    IN  /\ node[k] = "await"
        /\ \A p \in ParentKeys(k) : node[p] = "done" /\ result[p].kind = "value"
        /\ node' = [node EXCEPT ![k] = "done"]
        /\ seed' = [seed EXCEPT ![k] = s]
        /\ result' = [result EXCEPT ![k] = ParseDeclarations(k, s, fs[DirOf(k)], rulesImpl)]
        /\ syntheticMaps' = [syntheticMaps EXCEPT ![k] =
                            SyntheticAfter(k, s, fs[DirOf(k)], rulesImpl)]
        /\ evals' = [evals EXCEPT ![DirOf(k)] = @ + 1]
        /\ UNCHANGED <<go, fs, rulesImpl, caller, reads, exists, addr, globs, rule, prelude>>

\* ParentRaised taking a failed parent for one without address family.
ParentRaisedSkipped(k) ==
    LET parents == ParentDirs(k)
        s == SelectSeed([i \in 1..Len(parents) |-> result[parents[i]]])
    IN  /\ node[k] = "await"
        /\ \A p \in ParentKeys(k) : node[p] = "done"
        /\ \E p \in ParentKeys(k) : result[p].kind = "raised"
        /\ node' = [node EXCEPT ![k] = "done"]
        /\ seed' = [seed EXCEPT ![k] = s]
        /\ result' = [result EXCEPT ![k] = ParseDeclarations(k, s, fs[DirOf(k)], rulesImpl)]
        /\ syntheticMaps' = [syntheticMaps EXCEPT ![k] =
                            SyntheticAfter(k, s, fs[DirOf(k)], rulesImpl)]
        /\ evals' = [evals EXCEPT ![DirOf(k)] = @ + 1]
        /\ UNCHANGED <<go, fs, rulesImpl, caller, reads, exists, addr, globs, rule, prelude>>

\* The MultiGet of the parents raises: a parent's run has failed.
ParentRaised(k) ==
    /\ node[k] = "await"
    /\ \E p \in ParentKeys(k) :
        /\ node[p] = "done" /\ result[p].kind = "raised"
        /\ result' = [result EXCEPT ![k] = result[p]]
    /\ node' = [node EXCEPT ![k] = "done"]
    /\ UNCHANGED <<go, fs, rulesImpl, seed, caller, reads, evals, exists, addr, globs,
                 syntheticMaps, rule, prelude>>

\* ensure_address_family without its check for None.
EnsureAddressFamilyUnchecked(request) ==
    [kind |-> "value", path |-> request.path,
     address_family |-> request.address_family, error |-> None]

\* ensure_address_family(request).
EnsureAddressFamilyOf(request) ==
    IF request.address_family = None
    THEN Raised(ResolveError("Directory '{}' does not contain any BUILD files.",
                             <<request.path>>))
    ELSE [kind |-> "value", path |-> request.path,
          address_family |-> request.address_family, error |-> None]

\* Get(AddressFamily, AddressFamilyDir(address.spec_path)) of a caller: the
\* directory is named by the spec_path of an address. Callers are numbered in
\* the order of their requests.
Request(c, k) ==
    /\ caller[c].pc = "idle"
    /\ \A b \in DOMAIN caller : b < c => caller[b].pc # "idle"
    /\ caller' = [caller EXCEPT ![c] = [@ EXCEPT !.pc = "waiting", !.key = k]]
    /\ node' = EngineGet(node, {k})
    /\ UNCHANGED <<go, fs, rulesImpl, seed, result, reads, evals, exists, addr, globs,
                 syntheticMaps, rule, prelude>>

\* The caller's Get returns: ensure_address_family has run on the memoized
\* outcome of parse_address_family; a raised outcome never reaches it and is
\* raised in the caller.
EnsureAddressFamily(c) ==
    /\ caller[c].pc = "waiting"
    /\ node[caller[c].key] = "done"
    /\ caller' = [caller EXCEPT ![c] =
                    [@ EXCEPT !.pc = "ensured",
                              !.val = result[caller[c].key],
                              !.out = IF result[caller[c].key].kind = "raised"
                                      THEN result[caller[c].key]
                                      ELSE EnsureAddressFamilyOf(result[caller[c].key])]]
    /\ UNCHANGED <<go, fs, rulesImpl, node, seed, result, reads, evals, exists, addr, globs,
                 syntheticMaps, rule, prelude>>

(***************************************************************************)
(* maybe_resolve_address and resolve_address.                              *)
(***************************************************************************)
\* AddressInput(path_component, target_component, description_of_origin); an
\* absent target component is the empty string.
AddressInput(path_component, target_component, description_of_origin) ==
    [path_component |-> path_component, target_component |-> target_component,
     description_of_origin |-> description_of_origin]

NoAddress == [kind |-> "none", spec_path |-> <<>>, target |-> "", file |-> ""]

\* address_input.file_to_address(): the address of a file, in the directory
\* of the file.
FileToAddress(input) ==
    [kind |-> "file",
     spec_path |-> SubSeq(input.path_component, 1, Len(input.path_component) - 1),
     target |-> input.target_component,
     file |-> input.path_component[Len(input.path_component)]]

\* address_input.dir_to_address(): the address of a target of the directory.
DirToAddress(input) ==
    [kind |-> "dir", spec_path |-> input.path_component,
     target |-> input.target_component, file |-> ""]

\* MaybeAddress(val): an Address or a ResolveError.
MaybeAddress(address, error) == [address |-> address, error |-> error]

\* SpecOf without the target component.
SpecOfPathOnly(input) == input.path_component

\* `spec`: the path component, then ":" and the target component if there is one.
SpecOf(input) ==
    IF input.target_component # ""
    THEN input.path_component \o <<":", input.target_component>>
    ELSE input.path_component

\* The ResolveError of maybe_resolve_address.
UnresolvedError(input) ==
    ResolveError("The file or directory '{}' does not exist on disk in the workspace, so the address '{}' from {} cannot be resolved.",
                 <<input.path_component, SpecOf(input), <<input.description_of_origin>>>>)

\* Get(Paths, PathGlobs(globs=(path_component,))): is_file and is_dir.
PathsOf(path_component) ==
    [is_file |-> path_component \in exists.files, is_dir |-> path_component \in exists.dirs]

\* MaybeResolved testing is_dir before is_file.
MaybeResolvedDirFirst(input, is_file, is_dir) ==
    IF is_dir THEN MaybeAddress(DirToAddress(input), None)
    ELSE IF is_file THEN MaybeAddress(FileToAddress(input), None)
    ELSE MaybeAddress(NoAddress, UnresolvedError(input))

\* maybe_resolve_address once is_file and is_dir are known.
MaybeResolved(input, is_file, is_dir) ==
    IF is_file THEN MaybeAddress(FileToAddress(input), None)
    ELSE IF is_dir THEN MaybeAddress(DirToAddress(input), None)
    ELSE MaybeAddress(NoAddress, UnresolvedError(input))

NoMaybe == MaybeAddress(NoAddress, None)
IdleAddr == [pc |-> "idle", input |-> AddressInput(<<>>, "", ""), maybe |-> NoMaybe, out |-> None]

\* maybe_resolve_address starts: with a path component it requests the Paths,
\* without one it is an address in the root directory and returns at once.
MaybeResolveAddress(input) ==
    /\ addr.pc = "idle"
    /\ IF input.path_component # <<>>
       THEN /\ addr' = [addr EXCEPT !.pc = "paths", !.input = input]
            /\ globs' = globs + 1
       ELSE /\ addr' = [addr EXCEPT !.pc = "maybe", !.input = input,
                                    !.maybe = MaybeResolved(input, FALSE, TRUE)]
            /\ UNCHANGED globs
    /\ UNCHANGED <<exists, go, fs, rulesImpl, node, seed, result, caller, reads, evals,
                 syntheticMaps, rule, prelude>>

\* The Paths request returns and maybe_resolve_address completes.
PathsReturned ==
    /\ addr.pc = "paths"
    /\ LET paths == PathsOf(addr.input.path_component)
       IN  addr' = [addr EXCEPT !.pc = "maybe",
                                !.maybe = MaybeResolved(addr.input, paths.is_file, paths.is_dir)]
    /\ UNCHANGED <<exists, globs, go, fs, rulesImpl, node, seed, result, caller, reads, evals,
                 syntheticMaps, rule, prelude>>

\* resolve_address(maybe_address): raise the error, or return the address.
ResolveAddressOf(maybe_address) ==
    IF maybe_address.error # None
    THEN [kind |-> "raised", address |-> NoAddress, error |-> maybe_address.error]
    ELSE [kind |-> "value", address |-> maybe_address.address, error |-> None]

ResolveAddress ==
    /\ addr.pc = "maybe"
    /\ addr' = [addr EXCEPT !.pc = "resolved", !.out = ResolveAddressOf(addr.maybe)]
    /\ UNCHANGED <<exists, globs, go, fs, rulesImpl, node, seed, result, caller, reads, evals,
                 syntheticMaps, rule, prelude>>

\* The path components, target components and origins of the address inputs.
PathComponents == {<<>>, <<"a">>, <<"a", "b">>, <<"a", "f.py">>, <<"no", "such", "path">>}
TargetComponents == {"", "tgt"}
Origins == {"the CLI", "a BUILD file"}
AddressInputs ==
    {AddressInput(p, t, o) : p \in PathComponents, t \in TargetComponents, o \in Origins}

(***************************************************************************)
(* Addresses and the target records of an address family.                  *)
(***************************************************************************)
\* Address(spec_path, target_name, relative_file_path): a target of a
\* directory or, with a relative file path, the target generated for a file.
Address(spec_path, target_name, relative_file_path) ==
    [kind |-> IF relative_file_path = "" THEN "dir" ELSE "file",
     spec_path |-> spec_path, target |-> target_name, file |-> relative_file_path]

\* address.is_generated_target.
IsGeneratedTarget(address) == address.file # ""

\* address.maybe_convert_to_target_generator(): the target generator of a
\* generated target, any other address itself.
MaybeConvertToTargetGenerator(address) ==
    IF IsGeneratedTarget(address) THEN Address(address.spec_path, address.target, "")
    ELSE address

\* str(address).
AddressSpec(address) ==
    (IF IsGeneratedTarget(address) THEN address.spec_path \o <<address.file>>
     ELSE address.spec_path) \o <<":", address.target>>

\* A TargetAdaptor: the name of the target and the address map it comes from.
TargetAdaptor(name, description_of_origin) ==
    [name |-> name, description_of_origin |-> description_of_origin]

\* address_family.get_target_adaptor(address): None when no address map of the
\* family has the target name.
FamilyGetTargetAdaptor(address_family, address) ==
    LET maps == address_family.address_maps
        at == {i \in 1..Len(maps) : InSeq(address.target, maps[i].names)}
    IN  IF at = {} THEN None
        ELSE TargetAdaptor(address.target, maps[CHOOSE i \in at : TRUE].path)

\* address_family.target_names.
TargetNames(address_family) ==
    LET maps == address_family.address_maps
    IN  UNION {{maps[i].names[j] : j \in 1..Len(maps[i].names)} : i \in 1..Len(maps)}

BuildFileAddress(address, rel_path) == [address |-> address, rel_path |-> rel_path]

\* address_family.build_file_addresses: every target of the family with the
\* path of its address map.
BuildFileAddresses(address_family) ==
    LET maps == address_family.address_maps
    IN  UNION {{BuildFileAddress(Address(address_family.namespace, maps[i].names[j], ""),
                                 maps[i].path) : j \in 1..Len(maps[i].names)} :
                i \in 1..Len(maps)}

\* The target names of the repositories, in sorted order.
TargetNameOrder == <<"lib", "lib2", "nope", "syn">>
SortedNames(names) == SelectSeq(TargetNameOrder, LAMBDA n : n \in names)

\* ResolveError.did_you_mean(bad_address, description_of_origin=...,
\* known_names=..., namespace=...).
DidYouMean(bad_address, description_of_origin, known_names, namespace) ==
    ResolveError("The address {} from {} does not exist. The target name ':{}' is not defined in the directory {}. Did you mean one of these target names? {}",
                 <<AddressSpec(bad_address), description_of_origin, <<bad_address.target>>,
                   namespace, SortedNames(known_names)>>)

\* The outcome of a rule: the value it returns or the exception it raises.
Returns(value) == [kind |-> "value", value |-> value, error |-> None]
Raises(error) == [kind |-> "raised", value |-> None, error |-> error]

(***************************************************************************)
(* find_build_file and find_target_adaptor.                                *)
(***************************************************************************)
\* A BuildFileAddressRequest, TargetAdaptorRequest or
\* DependenciesRuleActionRequest: dependencies is empty for the first two.
RuleRequest(address, dependencies, description_of_origin) ==
    [address |-> address, dependencies |-> dependencies,
     description_of_origin |-> description_of_origin]

IdleRule ==
    [pc |-> "idle", name |-> "", request |-> RuleRequest(Address(ROOT, "", ""), <<>>, <<>>),
     out |-> None, calls |-> <<>>]

\* _get_target_adaptor returning the null adaptor instead of raising.
GetTargetAdaptorUnchecked(address, address_family, description_of_origin) ==
    Returns(FamilyGetTargetAdaptor(address_family, address))

\* _get_target_adaptor(address, address_family, description_of_origin).
GetTargetAdaptor(address, address_family, description_of_origin) ==
    LET target_adaptor == FamilyGetTargetAdaptor(address_family, address)
    IN  IF target_adaptor = None
        THEN Raises(DidYouMean(address, description_of_origin,
                               TargetNames(address_family), address_family.namespace))
        ELSE Returns(target_adaptor)

\* find_build_file returning the BuildFileAddress of the target generator for
\* every address.
FindBuildFileOfGenerator(request, address_family) ==
    LET owning_address == MaybeConvertToTargetGenerator(request.address)
    IN  IF FamilyGetTargetAdaptor(address_family, owning_address) = None
        THEN Raises(DidYouMean(owning_address, request.description_of_origin,
                               TargetNames(address_family), address_family.namespace))
        ELSE Returns(CHOOSE b \in BuildFileAddresses(address_family) :
                        b.address = owning_address)

\* find_build_file once the address family of address.spec_path is there.
FindBuildFileOf(request, address_family) ==
    LET address == request.address
        owning_address == MaybeConvertToTargetGenerator(address)
    IN  IF FamilyGetTargetAdaptor(address_family, owning_address) = None
        THEN Raises(DidYouMean(owning_address, request.description_of_origin,
                               TargetNames(address_family), address_family.namespace))
        ELSE LET bfa == CHOOSE b \in BuildFileAddresses(address_family) :
                            b.address = owning_address
             IN  Returns(IF IsGeneratedTarget(address)
                         THEN BuildFileAddress(address, bfa.rel_path)
                         ELSE bfa)

\* find_target_adaptor once the address family of address.spec_path is there.
FindTargetAdaptorOf(request, address_family) ==
    GetTargetAdaptor(request.address, address_family, request.description_of_origin)

\* The AssertionError of find_target_adaptor.
GeneratedTargetError(request) ==
    Error("AssertionError",
          "Generated targets are not defined in BUILD files, and so do not have TargetAdaptors: {}",
          <<AddressSpec(request.address), request.description_of_origin>>)

\* find_build_file(request) up to its Get of the address family.
FindBuildFile(request) ==
    /\ rule.pc = "idle"
    /\ rule' = [rule EXCEPT !.pc = "await", !.name = "find_build_file",
                            !.request = request]
    /\ node' = EngineGet(node, {request.address.spec_path})
    /\ UNCHANGED <<go, fs, rulesImpl, seed, result, caller, reads, evals, exists, addr, globs,
                   syntheticMaps, prelude>>

\* find_target_adaptor(request) up to its Get of the address family: a
\* generated target is refused before any request is made.
FindTargetAdaptor(request) ==
    /\ rule.pc = "idle"
    /\ IF IsGeneratedTarget(request.address)
       THEN /\ rule' = [rule EXCEPT !.pc = "done", !.name = "find_target_adaptor",
                                    !.request = request,
                                    !.out = Raises(GeneratedTargetError(request))]
            /\ UNCHANGED node
       ELSE /\ rule' = [rule EXCEPT !.pc = "await", !.name = "find_target_adaptor",
                                    !.request = request]
            /\ node' = EngineGet(node, {request.address.spec_path})
    /\ UNCHANGED <<go, fs, rulesImpl, seed, result, caller, reads, evals, exists, addr, globs,
                   syntheticMaps, prelude>>

(***************************************************************************)
(* get_dependencies_rule_action.                                           *)
(***************************************************************************)
\* DependenciesRuleAction(address, dependencies_rule).
DependenciesRuleAction(address, dependencies_rule) ==
    [address |-> address, dependencies_rule |-> dependencies_rule]

\* DependenciesRuleAction.allow_all(): no action recorded for any dependency.
AllowAll == DependenciesRuleAction(Address(<<"!!">>, "", ""), [d \in {} |-> "ALLOW"])

\* The action a DependenciesRuleAction holds for a dependency: ALLOW when it
\* records none.
ActionFor(rule_action, dependency) ==
    IF dependency \in DOMAIN rule_action.dependencies_rule
    THEN rule_action.dependencies_rule[dependency]
    ELSE "ALLOW"

\* The action a rule set asks for: ALLOW when there is no rule set or no rule.
TableAction(rules) ==
    IF rules = None THEN "ALLOW"
    ELSE IF rules.rules \in {"WARN", "DENY"} THEN rules.rules
    ELSE "ALLOW"

\* check_dependency_rules of the installed implementation: the stricter of
\* what the source's dependencies_rules and the dependency's dependents_rules
\* ask for.
CheckDependencyRules(source_adaptor, source_path, dependencies_rules, target_adaptor, target_path, dependents_rules) ==
    LET asked == {TableAction(dependencies_rules), TableAction(dependents_rules)}
    IN  IF "DENY" \in asked THEN "DENY"
        ELSE IF "WARN" \in asked THEN "WARN"
        ELSE "ALLOW"

\* CheckCall with the two rule sets taken from the wrong families.
CheckCallCrossed(origin_target, origin_family, dependency_target, dependency_family) ==
    [source_adaptor |-> origin_target, source_path |-> origin_family.namespace,
     dependencies_rules |-> dependency_family.dependencies_rules,
     target_adaptor |-> dependency_target, target_path |-> dependency_family.namespace,
     dependents_rules |-> origin_family.dependents_rules]

\* The arguments of one call of check_dependency_rules.
CheckCall(origin_target, origin_family, dependency_target, dependency_family) ==
    [source_adaptor |-> origin_target, source_path |-> origin_family.namespace,
     dependencies_rules |-> origin_family.dependencies_rules,
     target_adaptor |-> dependency_target, target_path |-> dependency_family.namespace,
     dependents_rules |-> dependency_family.dependents_rules]

CheckedAction(call) ==
    CheckDependencyRules(call.source_adaptor, call.source_path, call.dependencies_rules,
                         call.target_adaptor, call.target_path, call.dependents_rules)

\* The index of the last occurrence of a dependency in the request.
LastIndex(dependencies, d) ==
    CHOOSE i \in 1..Len(dependencies) :
        /\ dependencies[i] = d
        /\ \A j \in 1..Len(dependencies) : dependencies[j] = d => j <= i

\* DependenciesRule giving every dependency the strictest action of the
\* dependencies up to it.
DependenciesRuleStrictest(dependencies, calls) ==
    [d \in {dependencies[i] : i \in 1..Len(dependencies)} |->
        LET upto == {CheckedAction(calls[i]) : i \in 1..LastIndex(dependencies, d)}
        IN  IF "DENY" \in upto THEN "DENY"
            ELSE IF "WARN" \in upto THEN "WARN"
            ELSE "ALLOW"]

\* dependencies_rule, filled in the order of request.dependencies: every
\* dependency address is the key of the action of its own call.
DependenciesRule(dependencies, calls) ==
    [d \in {dependencies[i] : i \in 1..Len(dependencies)} |->
        CheckedAction(calls[LastIndex(dependencies, d)])]

\* get_dependencies_rule_action once the address families are there: the
\* outcome and the calls of check_dependency_rules made on the way.
GetDependenciesRuleActionOf(request, families) ==
    LET origin_family == families[request.address.spec_path]
        origin_target ==
            GetTargetAdaptor(MaybeConvertToTargetGenerator(request.address), origin_family,
                             request.description_of_origin)
        deps == request.dependencies
        dependency_target ==
            [i \in 1..Len(deps) |->
                GetTargetAdaptor(MaybeConvertToTargetGenerator(deps[i]),
                                 families[deps[i].spec_path],
                                 request.description_of_origin \o <<" on ">>
                                    \o AddressSpec(deps[i]))]
        failing == {i \in 1..Len(deps) : dependency_target[i].kind = "raised"}
        first == CHOOSE i \in failing : \A j \in failing : i <= j
        last == IF failing = {} THEN Len(deps) ELSE first - 1
        calls == [i \in 1..last |->
                    CheckCall(origin_target.value, origin_family,
                              dependency_target[i].value, families[deps[i].spec_path])]
    IN  IF origin_target.kind = "raised" THEN [out |-> origin_target, calls |-> <<>>]
        ELSE IF failing # {} THEN [out |-> dependency_target[first], calls |-> calls]
        ELSE [out |-> Returns(DependenciesRuleAction(request.address,
                                                     DependenciesRule(deps, calls))),
              calls |-> calls]

\* SpecPaths with the directory of the address only.
SpecPathsOfAddress(request) == {request.address.spec_path}

\* spec_paths: the directories of the address and of the dependencies.
SpecPaths(request) ==
    {request.address.spec_path}
        \cup {request.dependencies[i].spec_path : i \in 1..Len(request.dependencies)}

\* get_dependencies_rule_action asking for the address families without an
\* implementation too.
GetDependenciesRuleActionUnchecked(request) ==
    /\ rule.pc = "idle"
    /\ rule' = [rule EXCEPT !.pc = "await", !.name = "get_dependencies_rule_action",
                            !.request = request]
    /\ node' = EngineGet(node, SpecPaths(request))
    /\ UNCHANGED <<go, fs, rulesImpl, seed, result, caller, reads, evals, exists, addr, globs,
                   syntheticMaps, prelude>>

\* get_dependencies_rule_action(request) up to its MultiGet: without a rule
\* implementation it returns allow_all() at once.
GetDependenciesRuleAction(request) ==
    /\ rule.pc = "idle"
    /\ IF ~rulesImpl
       THEN /\ rule' = [rule EXCEPT !.pc = "done", !.name = "get_dependencies_rule_action",
                                    !.request = request, !.out = Returns(AllowAll)]
            /\ UNCHANGED node
       ELSE /\ rule' = [rule EXCEPT !.pc = "await", !.name = "get_dependencies_rule_action",
                                    !.request = request]
            /\ node' = EngineGet(node, SpecPaths(request))
    /\ UNCHANGED <<go, fs, rulesImpl, seed, result, caller, reads, evals, exists, addr, globs,
                   syntheticMaps, prelude>>

\* Get(AddressFamily, AddressFamilyDir(spec_path)): the outcome of
\* parse_address_family passed through ensure_address_family.
AddressFamilyOf(k) ==
    IF result[k].kind = "raised" THEN result[k] ELSE EnsureAddressFamilyOf(result[k])

\* families: the address families of the given requests by their namespace.
Families(keys) ==
    LET all == {AddressFamilyOf(k).address_family : k \in keys}
    IN  [ns \in {family.namespace : family \in all} |->
            CHOOSE family \in all : family.namespace = ns]

\* The Get or MultiGet of the rule returns the address families and the rule
\* runs to its end.
AddressFamiliesReturned ==
    /\ rule.pc = "await"
    /\ \A k \in SpecPaths(rule.request) :
        node[k] = "done" /\ AddressFamilyOf(k).kind = "value"
    /\ LET families == Families(SpecPaths(rule.request))
           address_family == families[rule.request.address.spec_path]
           end == CASE rule.name = "find_build_file" ->
                        [out |-> FindBuildFileOf(rule.request, address_family),
                         calls |-> <<>>]
                    [] rule.name = "find_target_adaptor" ->
                        [out |-> FindTargetAdaptorOf(rule.request, address_family),
                         calls |-> <<>>]
                    [] OTHER -> GetDependenciesRuleActionOf(rule.request, families)
       IN  rule' = [rule EXCEPT !.pc = "done", !.out = end.out, !.calls = end.calls]
    /\ UNCHANGED <<go, fs, rulesImpl, node, seed, result, caller, reads, evals, exists, addr,
                   globs, syntheticMaps, prelude>>

\* The Get or MultiGet of the rule raises: a directory has failed or has no
\* address family.
AddressFamiliesRaised ==
    /\ rule.pc = "await"
    /\ \E k \in SpecPaths(rule.request) :
        /\ node[k] = "done" /\ AddressFamilyOf(k).kind = "raised"
        /\ rule' = [rule EXCEPT !.pc = "done", !.out = Raises(AddressFamilyOf(k).error)]
    /\ UNCHANGED <<go, fs, rulesImpl, node, seed, result, caller, reads, evals, exists, addr,
                   globs, syntheticMaps, prelude>>

(***************************************************************************)
(* evaluate_preludes.                                                      *)
(***************************************************************************)
\* The top-level statements of a prelude file: a name bound to a constant, a
\* name bound to the value of another name, an import, and `Raise`.
Assign(name, val) == [op |-> "assign", key |-> name, val |-> val]
AssignFrom(name, other) == [op |-> "from", key |-> name, val |-> other]
Import(name) == [op |-> "import", key |-> name, val |-> ""]

\* globals: the builtin exceptions and parser.builtin_symbols.
BuiltinSymbols == {"ValueError", "python_sources"}
PreludeGlobals == [n \in BuiltinSymbols |-> "builtin"]

\* Exception(f"Error parsing prelude file {file_content.path}: {e}").
PreludeError(path, cause) ==
    Error("Exception", "Error parsing prelude file {}: {}", <<path, cause>>)

\* The error error_on_imports(file_content_str, file_content.path) raises.
ImportUsedError(path) == Error("ParseError", "Import used in {}", <<path>>)

\* exec of one top-level statement with separate globals and locals: a name is
\* read from the locals, then from the globals, and is bound in the locals.
ExecStatement(stmt, globals, st) ==
    CASE stmt.op = "assign" ->
            [st EXCEPT !.locals = (stmt.key :> stmt.val) @@ @]
      [] stmt.op = "from" ->
            IF stmt.val \in DOMAIN st.locals
            THEN [st EXCEPT !.locals = (stmt.key :> st.locals[stmt.val]) @@ @]
            ELSE IF stmt.val \in DOMAIN globals
            THEN [st EXCEPT !.locals = (stmt.key :> globals[stmt.val]) @@ @]
            ELSE [st EXCEPT !.error = <<"name '", stmt.val, "' is not defined">>]
      [] stmt.op = "import" ->
            [st EXCEPT !.locals = (stmt.key :> "module") @@ @]
      [] OTHER -> [st EXCEPT !.error = <<"raised">>]

\* exec(content, globals, locals): the statements in order, up to the first
\* that raises.
RECURSIVE Exec(_, _, _, _)
Exec(stmts, i, globals, st) ==
    IF i > Len(stmts) \/ st.error # <<>> THEN st
    ELSE Exec(stmts, i + 1, globals, ExecStatement(stmts[i], globals, st))

HasImport(stmts) == \E i \in 1..Len(stmts) : stmts[i].op = "import"

\* The outcome of evaluate_preludes, with the number of files it has executed.
PreludeSymbols(locals, globals, evaluated) ==
    [kind |-> "value", symbols |-> locals, globals |-> globals, error |-> None,
     evaluated |-> evaluated]
PreludeRaises(error, evaluated) ==
    [kind |-> "raised", symbols |-> None, globals |-> None, error |-> error,
     evaluated |-> evaluated]

\* The loop of EvaluatePreludesOf with fresh locals for every file.
RECURSIVE EvalPreludeFilesApart(_, _, _, _)
EvalPreludeFilesApart(files, i, globals, locals) ==
    IF i > Len(files)
    THEN LET symbols == [n \in DOMAIN locals \ {"__builtins__"} |-> locals[n]]
         IN  PreludeSymbols(symbols, symbols @@ globals, Len(files))
    ELSE LET after == Exec(files[i].stmts, 1, globals,
                           [locals |-> [n \in {} |-> ""], error |-> <<>>])
         IN  IF after.error # <<>>
             THEN PreludeRaises(PreludeError(files[i].path, after.error), i)
             ELSE IF HasImport(files[i].stmts)
             THEN PreludeRaises(ImportUsedError(files[i].path), i)
             ELSE EvalPreludeFilesApart(files, i + 1, globals, after.locals @@ locals)

\* The loop of EvaluatePreludesOf going on to the next file when one fails.
RECURSIVE EvalPreludeFilesSkipping(_, _, _, _)
EvalPreludeFilesSkipping(files, i, globals, locals) ==
    IF i > Len(files)
    THEN LET symbols == [n \in DOMAIN locals \ {"__builtins__"} |-> locals[n]]
         IN  PreludeSymbols(symbols, symbols @@ globals, Len(files))
    ELSE LET after == Exec(files[i].stmts, 1, globals,
                           [locals |-> locals, error |-> <<>>])
         IN  EvalPreludeFilesSkipping(files, i + 1, globals,
                                      IF after.error # <<>> THEN locals ELSE after.locals)

\* The loop over prelude_digest_contents and what follows it: every file is
\* executed with the same globals and the same locals; an exception of the
\* execution is wrapped, one of error_on_imports is not; at the end
\* `__builtins__` is popped from the locals and the globals are updated.
RECURSIVE EvalPreludeFiles(_, _, _, _)
EvalPreludeFiles(files, i, globals, locals) ==
    IF i > Len(files)
    THEN LET symbols == [n \in DOMAIN locals \ {"__builtins__"} |-> locals[n]]
         IN  PreludeSymbols(symbols, symbols @@ globals, Len(files))
    ELSE LET after == Exec(files[i].stmts, 1, globals,
                           [locals |-> locals, error |-> <<>>])
         IN  IF after.error # <<>>
             THEN PreludeRaises(PreludeError(files[i].path, after.error), i)
             ELSE IF HasImport(files[i].stmts)
             THEN PreludeRaises(ImportUsedError(files[i].path), i)
             ELSE EvalPreludeFiles(files, i + 1, globals, after.locals)

\* evaluate_preludes once the prelude files are read.
EvaluatePreludesOf(files) == EvalPreludeFiles(files, 1, PreludeGlobals, [n \in {} |-> ""])

\* No call of the Go test rules.
IdleGo == [pc |-> "none"]

\* A session without prelude files, after evaluate_preludes.
NoPreludes == [pc |-> "done", files |-> <<>>, out |-> EvaluatePreludesOf(<<>>)]

\* evaluate_preludes up to its Get of the prelude files.
EvaluatePreludes ==
    /\ prelude.pc = "idle"
    /\ prelude' = [prelude EXCEPT !.pc = "reading"]
    /\ UNCHANGED <<go, fs, rulesImpl, node, seed, result, caller, reads, evals, exists, addr,
                   globs, syntheticMaps, rule>>

\* The prelude files are read and evaluate_preludes runs to its end.
PreludesRead ==
    /\ prelude.pc = "reading"
    /\ prelude' = [prelude EXCEPT !.pc = "done", !.out = EvaluatePreludesOf(prelude.files)]
    /\ UNCHANGED <<go, fs, rulesImpl, node, seed, result, caller, reads, evals, exists, addr,
                   globs, syntheticMaps, rule>>

\* parse_address_family without its prelude symbols: the failure of
\* evaluate_preludes is the failure of the request.
PreludeRaised(k) ==
    /\ node[k] = "start"
    /\ prelude.pc = "done" /\ prelude.out.kind = "raised"
    /\ node' = [node EXCEPT ![k] = "done"]
    /\ result' = [result EXCEPT ![k] = Raised(prelude.out.error)]
    /\ UNCHANGED <<go, fs, rulesImpl, seed, caller, reads, evals, exists, addr, globs,
                   syntheticMaps, rule, prelude>>

\* A session before its first request, over the given repositories.
InitSession(repositories, callers) ==
    /\ fs \in repositories
    /\ rulesImpl \in BOOLEAN
    /\ node = [k \in Keys |-> "none"]
    /\ seed = [k \in Keys |-> None]
    /\ result = [k \in Keys |-> None]
    /\ caller = [c \in 1..callers |-> IdleCaller]
    /\ reads = [d \in TreeDirs |-> 0]
    /\ evals = [d \in TreeDirs |-> 0]
    /\ exists = [files |-> {}, dirs |-> TreeDirs]
    /\ addr = IdleAddr
    /\ globs = 0
    /\ syntheticMaps = [k \in Keys |-> None]
    /\ rule = IdleRule
    /\ go = IdleGo
    /\ prelude = NoPreludes

\* Directories that inherit: empty, without statements of their own, with
\* defaults and rules in one file or in two, failing, or only synthetic.
Contents ==
    {NoContent, PlainContent, MutatingContent("10", "p"), TwoFileContent,
     FailingContent, SyntheticOnlyContent}

Init == InitSession([TreeDirs -> Contents], NumCallers)

Next ==
    \/ \E k \in Keys : ReadInputs(k)
    \/ \E k \in Keys : ParentsResolved(k)
    \/ \E k \in Keys : ParentRaised(k)
    \/ \E c \in Callers, k \in TreeDirs : Request(c, k)
    \/ \E c \in Callers : EnsureAddressFamily(c)

Spec == Init /\ [][Next]_vars

\* Directories whose declarations share names or not, among their files and
\* their synthetic maps.
NameContents ==
    {NoContent, TwoFileContent, DuplicateContent, ReversedContent(DuplicateContent),
     SyntheticContent, SyntheticDuplicateContent}

InitNames == InitSession([TreeDirs -> NameContents], NumCallers)

SpecNames == InitNames /\ [][Next]_vars

\* Directories that are empty, that inherit, or that fail, requested by
\* concurrent callers.
SharedContents == {NoContent, MutatingContent("10", "p"), FailingContent}

InitShared == InitSession([TreeDirs -> SharedContents], NumConcurrent)

SpecShared == InitShared /\ [][Next]_vars

\* Directories whose two files set defaults and rules, in either order of the
\* files.
OrderContents ==
    {NoContent, SplitContent, TwoFileContent, ReversedContent(TwoFileContent),
     FailingContent}

InitOrder == InitSession([TreeDirs -> OrderContents], NumCallers)

SpecOrder == InitOrder /\ [][Next]_vars

\* The session of one address resolution, over every set of existing files
\* and directories.
InitAddr ==
    /\ fs = [d \in TreeDirs |-> NoContent]
    /\ rulesImpl = FALSE
    /\ node = [k \in Keys |-> "none"]
    /\ seed = [k \in Keys |-> None]
    /\ result = [k \in Keys |-> None]
    /\ caller = [c \in 1..NumCallers |-> IdleCaller]
    /\ reads = [d \in TreeDirs |-> 0]
    /\ evals = [d \in TreeDirs |-> 0]
    /\ exists \in [files : SUBSET (PathComponents \ {<<>>}), dirs : SUBSET PathComponents]
    /\ addr = IdleAddr
    /\ globs = 0
    /\ syntheticMaps = [k \in Keys |-> None]
    /\ rule = IdleRule
    /\ go = IdleGo
    /\ prelude = NoPreludes

NextAddr ==
    \/ \E input \in AddressInputs : MaybeResolveAddress(input)
    \/ PathsReturned
    \/ ResolveAddress

SpecAddr == InitAddr /\ [][NextAddr]_vars

\* Directories without declarations, with one file, with two files and a
\* synthetic map, and with a failing file, in which a target is looked up.
LookupContents == {NoContent, PlainContent, TwoFileContent, FailingContent}

\* The requests of a lookup: a target or a generated target of a directory,
\* by a name that is declared somewhere or nowhere.
LookupRequests ==
    {RuleRequest(Address(d, n, f), <<>>, <<o>>) :
        d \in TreeDirs, n \in {"lib", "lib2", "syn", "nope"}, f \in {"", "f.py"},
        o \in Origins}

InitLookup == InitSession([TreeDirs -> LookupContents], NumCallers)

NextLookup ==
    \/ \E request \in LookupRequests : FindBuildFile(request)
    \/ \E request \in LookupRequests : FindTargetAdaptor(request)
    \/ \E k \in Keys : ReadInputs(k)
    \/ \E k \in Keys : ParentsResolved(k)
    \/ \E k \in Keys : ParentRaised(k)
    \/ AddressFamiliesReturned
    \/ AddressFamiliesRaised

SpecLookup == InitLookup /\ [][NextLookup]_vars

\* Directories without declarations, with rules that warn dependents and deny
\* dependencies, and with rules that allow both.
RuleContents == {NoContent, RuledContent("WARN", "DENY"), RuledContent("ALLOW", "ALLOW")}

\* The source and the dependencies of a request: targets and generated
\* targets, declared or not.
RuleSources == {Address(ROOT, "lib", ""), Address(<<"a">>, "lib", "f.py")}
RuleDependencies ==
    {Address(d, "lib", "") : d \in TreeDirs}
        \cup {Address(<<"a">>, "lib", "f.py"), Address(<<"a">>, "nope", "")}

\* request.dependencies: no dependency, one, or two different ones in either
\* order.
DependencyTuples ==
    {<<>>} \cup {<<d>> : d \in RuleDependencies}
           \cup ({<<d, e>> : d, e \in RuleDependencies} \ {<<d, d>> : d \in RuleDependencies})

RuleRequests ==
    {RuleRequest(a, deps, <<"a BUILD file">>) : a \in RuleSources, deps \in DependencyTuples}

InitRules == InitSession([TreeDirs -> RuleContents], NumCallers)

NextRules ==
    \/ \E request \in RuleRequests : GetDependenciesRuleAction(request)
    \/ \E k \in Keys : ReadInputs(k)
    \/ \E k \in Keys : ParentsResolved(k)
    \/ AddressFamiliesReturned
    \/ AddressFamiliesRaised

SpecRules == InitRules /\ [][NextRules]_vars

\* Directories without declarations, with a file that parses and with a file
\* that fails, and the lookups and rule evaluations that need their snapshots.
FailureContents == {NoContent, PlainContent, FailingContent}
FailureLookups == {RuleRequest(Address(d, "lib", ""), <<>>, <<"the CLI">>) : d \in TreeDirs}
FailureEvaluations ==
    {RuleRequest(Address(d, "lib", ""), <<Address(e, "lib", "")>>, <<"a BUILD file">>) :
        d, e \in TreeDirs}

InitFailure == InitSession([TreeDirs -> FailureContents], NumCallers)

NextFailure ==
    \/ \E request \in FailureLookups : FindBuildFile(request)
    \/ \E request \in FailureLookups : FindTargetAdaptor(request)
    \/ \E request \in FailureEvaluations : GetDependenciesRuleAction(request)
    \/ \E k \in Keys : ReadInputs(k)
    \/ \E k \in Keys : ParentsResolved(k)
    \/ \E k \in Keys : ParentRaised(k)
    \/ AddressFamiliesReturned
    \/ AddressFamiliesRaised

SpecFailure == InitFailure /\ [][NextFailure]_vars

\* The session of SpecFailure's directories and lookups, in which the engine
\* goes on running the requests for directories for as long as one of them can
\* take a step.
InitTermination == InitSession([TreeDirs -> FailureContents], NumCallers)

ParseAddressFamily ==
    \E k \in Keys : ReadInputs(k) \/ ParentsResolved(k) \/ ParentRaised(k)

NextTermination ==
    \/ \E request \in FailureLookups : FindBuildFile(request)
    \/ ParseAddressFamily
    \/ AddressFamiliesReturned
    \/ AddressFamiliesRaised

SpecTermination ==
    InitTermination /\ [][NextTermination]_vars /\ WF_vars(ParseAddressFamily)

\* Prelude files at their paths: one that defines X and Y, one that reads X
\* and defines Y again, one that binds `__builtins__` and reads a builtin
\* symbol, one that raises after a definition, one that imports.
PreludeFile(path, stmts) == [path |-> <<path>>, stmts |-> stmts]
Defining(path) == PreludeFile(path, <<Assign("X", "1"), Assign("Y", "1")>>)
Using(path) == PreludeFile(path, <<AssignFrom("Z", "X"), Assign("Y", "2")>>)
Overriding(path) ==
    PreludeFile(path, <<Assign("__builtins__", "dict"), AssignFrom("W", "python_sources")>>)
Failing(path) == PreludeFile(path, <<Assign("V", "1"), Raise>>)
Importing(path) == PreludeFile(path, <<Import("os")>>)

\* prelude_digest_contents: the prelude files of a session, in the order of
\* their paths.
PreludeFiles ==
    {<<>>,
     <<Defining("a.py")>>,
     <<Defining("a.py"), Using("b.py")>>,
     <<Using("a.py"), Defining("b.py")>>,
     <<Defining("a.py"), Using("b.py"), Overriding("c.py")>>,
     <<Defining("a.py"), Failing("b.py"), Using("c.py")>>,
     <<Importing("a.py"), Defining("b.py")>>}

\* A session before evaluate_preludes, over directories with and without
\* declarations.
InitPrelude ==
    /\ fs \in [TreeDirs -> {NoContent, PlainContent}]
    /\ rulesImpl \in BOOLEAN
    /\ node = [k \in Keys |-> "none"]
    /\ seed = [k \in Keys |-> None]
    /\ result = [k \in Keys |-> None]
    /\ caller = [c \in 1..NumCallers |-> IdleCaller]
    /\ reads = [d \in TreeDirs |-> 0]
    /\ evals = [d \in TreeDirs |-> 0]
    /\ exists = [files |-> {}, dirs |-> TreeDirs]
    /\ addr = IdleAddr
    /\ globs = 0
    /\ syntheticMaps = [k \in Keys |-> None]
    /\ rule = IdleRule
    /\ go = IdleGo
    /\ \E files \in PreludeFiles : prelude = [pc |-> "idle", files |-> files, out |-> None]

NextPrelude ==
    \/ EvaluatePreludes
    \/ PreludesRead
    \/ \E k \in Keys : PreludeRaised(k)
    \/ \E k \in Keys : ReadInputs(k)
    \/ \E k \in Keys : ParentsResolved(k)
    \/ \E c \in Callers, k \in TreeDirs : Request(c, k)
    \/ \E c \in Callers : EnsureAddressFamily(c)

SpecPrelude == InitPrelude /\ [][NextPrelude]_vars

(***************************************************************************)
(* Properties of directory resolution.                                     *)
(***************************************************************************)
Resolved(k) == node[k] = "done" /\ result[k].kind = "value"
HasFamily(k) == Resolved(k) /\ result[k].address_family # None
Declares(k) == fs[DirOf(k)].files # <<>> \/ fs[DirOf(k)].synthetic # <<>>

\* The key under which a directory with parts d requests its parent.
ParentKey(d) == PurePathStr(SubSeq(d, 1, Len(d) - 1))

\* The family of the nearest proper ancestor of the directory with parts d that
\* resolved to one, going up one directory at a time; None at the root.
RECURSIVE NearestFamily(_)
NearestFamily(d) ==
    IF d = <<>> THEN None
    ELSE IF result[ParentKey(d)] # None /\ result[ParentKey(d)].address_family # None
         THEN result[ParentKey(d)].address_family
         ELSE NearestFamily(SubSeq(d, 1, Len(d) - 1))

\* All statements of a directory's files, in file order.
RECURSIVE Statements(_, _)
Statements(files, i) ==
    IF i > Len(files) THEN <<>> ELSE files[i].stmts \o Statements(files, i + 1)

\* The value the last statement with the given op and key sets, or `otherwise`.
LastSet(stmts, op, key, otherwise) ==
    LET at == {i \in 1..Len(stmts) : stmts[i].op = op /\ stmts[i].key = key}
    IN  IF at = {} THEN otherwise
        ELSE stmts[CHOOSE i \in at : \A j \in at : j <= i].val

Aliases == {"tgt", "other"}

\* C1: a directory with declarations seeds its Defaults builder with the frozen
\* Defaults of its nearest proper ancestor that resolved to a snapshot, skipping
\* the ancestors that resolved to the empty marker, and with empty Defaults when
\* there is none; its frozen Defaults are the seed with its own default
\* statements applied.
C1_NearestAncestorSeedsDefaults ==
    \A k \in Keys :
        (node[k] = "done" /\ seed[k] # None) =>
            LET near == NearestFamily(DirOf(k))
                expected == IF near = None THEN EmptyDefaults ELSE near.defaults
                stmts == Statements(fs[DirOf(k)].files, 1)
            IN  /\ Declares(k)
                /\ seed[k].defaults = expected
                /\ HasFamily(k) =>
                    \A a \in Aliases :
                        LET own == LastSet(stmts, "defaults", a, "")
                            d == result[k].address_family.defaults
                        IN  IF own # "" THEN a \in DOMAIN d /\ d[a] = own
                            ELSE IF a \in DOMAIN expected
                                 THEN a \in DOMAIN d /\ d[a] = expected[a]
                                 ELSE a \notin DOMAIN d

\* Transparency: a/b, without default statements of its own, has a snapshot
\* seeded over an empty a from the root's non-empty Defaults, and keeps them.
C1_Witness ==
    /\ HasFamily(<<"a", "b">>) /\ HasFamily(DOT)
    /\ Resolved(<<"a">>) /\ result[<<"a">>].address_family = None
    /\ result[DOT].address_family.defaults # EmptyDefaults
    /\ seed[<<"a", "b">>].defaults = result[DOT].address_family.defaults
    /\ result[<<"a", "b">>].address_family.defaults = seed[<<"a", "b">>].defaults

\* C2: a directory requested by several callers, directly or as an ancestor, is
\* read and evaluated once, and the callers that asked for it observe the same
\* result.
C2_DirectoryParsedOnce ==
    /\ \A d \in TreeDirs : reads[d] <= 1 /\ evals[d] <= 1
    /\ \A c1, c2 \in Callers :
        (/\ caller[c1].pc # "idle" /\ caller[c2].pc # "idle"
         /\ caller[c1].val # None /\ caller[c2].val # None
         /\ DirOf(caller[c1].key) = DirOf(caller[c2].key))
            => caller[c1].val = caller[c2].val

\* The target names a directory declares: in its files, in statement order,
\* then in its synthetic maps.
RECURSIVE SyntheticTargets(_, _)
SyntheticTargets(synthetic, i) ==
    IF i > Len(synthetic) THEN <<>>
    ELSE synthetic[i].targets \o SyntheticTargets(synthetic, i + 1)
DeclaredNames(content) ==
    LET stmts == Statements(content.files, 1)
        targets == SelectSeq(stmts, LAMBDA st : st.op = "target")
    IN  [i \in 1..Len(targets) |-> targets[i].key] \o SyntheticTargets(content.synthetic, 1)

\* The names a directory declares more than once.
DeclaredTwice(content) ==
    LET names == DeclaredNames(content)
    IN  {names[i] : i \in {i \in 1..Len(names) :
                            \E j \in 1..Len(names) : j # i /\ names[j] = names[i]}}

\* A file of the directory has a statement that fails.
HasFailingFile(content) ==
    \E i \in 1..Len(content.files) : InSeq(Raise, content.files[i].stmts)

\* The names visible in a family.
FamilyNames(family) ==
    UNION {{family.address_maps[i].names[j] : j \in 1..Len(family.address_maps[i].names)} :
            i \in 1..Len(family.address_maps)}

C5_FailingFileFailsDirectory ==
    \A k \in Keys :
        HasFailingFile(fs[DirOf(k)]) =>
            /\ node[k] = "done" => result[k].kind = "raised"
            /\ node[k] # "done" => result[k] = None
            /\ \A c \in Callers :
                (caller[c].key = k /\ caller[c].pc = "ensured") =>
                    /\ caller[c].val.kind = "raised"
                    /\ caller[c].out.kind = "raised"

\* A directory whose first file declares a target and whose second file fails
\* has been parsed, and a caller has got the failure.
C5_Witness ==
    \E k \in Keys, c \in Callers :
        /\ fs[DirOf(k)] = FailingContent /\ evals[DirOf(k)] > 0
        /\ node[k] = "done" /\ result[k].error.type = "ParseError"
        /\ caller[c].key = k /\ caller[c].pc = "ensured"

ExpectedRules(k, op, seeded) ==
    [rules |-> LastSet(Statements(fs[DirOf(k)].files, 1), op, "",
                       IF seeded = None THEN "" ELSE seeded.rules)]

\* C8: the dependents_rules builder of a directory is seeded from the
\* dependents_rules, and the dependencies_rules builder from the
\* dependencies_rules, of the nearest ancestor with a snapshot (the one that
\* seeds the Defaults), and from no rule set when there is none.
C8_RuleSetsInheritedLikeDefaults ==
    \A k \in Keys :
        (node[k] = "done" /\ seed[k] # None) =>
            LET near == NearestFamily(DirOf(k))
            IN  /\ seed[k].dependents_rules
                     = IF near = None THEN None ELSE near.dependents_rules
                /\ seed[k].dependencies_rules
                     = IF near = None THEN None ELSE near.dependencies_rules
                /\ (HasFamily(k) /\ rulesImpl) =>
                    /\ result[k].address_family.dependents_rules
                         = ExpectedRules(k, "dependents_rules",
                                         IF near = None THEN None ELSE near.dependents_rules)
                    /\ result[k].address_family.dependencies_rules
                         = ExpectedRules(k, "dependencies_rules",
                                         IF near = None THEN None ELSE near.dependencies_rules)

\* a/b, without rule statements of its own, has the two different rule sets of
\* the root, over an empty a.
C8_Witness ==
    /\ HasFamily(<<"a", "b">>) /\ HasFamily(DOT)
    /\ Resolved(<<"a">>) /\ result[<<"a">>].address_family = None
    /\ result[DOT].address_family.dependents_rules = [rules |-> "pin"]
    /\ result[DOT].address_family.dependencies_rules = [rules |-> "pout"]
    /\ result[<<"a", "b">>].address_family.dependents_rules = [rules |-> "pin"]
    /\ result[<<"a", "b">>].address_family.dependencies_rules = [rules |-> "pout"]

\* C10: ensure_address_family raises a ResolveError that names the directory
\* path when it is given the empty marker, and otherwise returns the address
\* family it is given.
C10_EnsureRaisesOnEmptyMarker ==
    \A c \in Callers :
        (caller[c].pc = "ensured" /\ caller[c].val.kind = "value") =>
            IF caller[c].val.address_family = None
            THEN /\ caller[c].out.kind = "raised"
                 /\ caller[c].out.error.type = "ResolveError"
                 /\ InSeq(caller[c].key, caller[c].out.error.args)
            ELSE /\ caller[c].out.kind = "value"
                 /\ caller[c].out.address_family = result[caller[c].key].address_family

\* A caller was refused the empty directory a below a root that has
\* declarations.
C10_Witness ==
    \E c \in Callers :
        /\ caller[c].pc = "ensured" /\ caller[c].key = <<"a">>
        /\ caller[c].val = OptionalAddressFamily(<<"a">>, None)
        /\ caller[c].out.kind = "raised"
        /\ Declares(ROOT)

(***************************************************************************)
(* Properties of address resolution.                                       *)
(***************************************************************************)
Unmatched(input) ==
    /\ input.path_component # <<>>
    /\ input.path_component \notin exists.files
    /\ input.path_component \notin exists.dirs

\* C4: for a non-empty path component that names neither a file nor a
\* directory, maybe_resolve_address yields, as a value, a ResolveError whose
\* message holds the path component, the spec text (path:target when there is a
\* target component) and the description of origin; resolve_address raises that
\* error, and returns the address unchanged when there is no error.
C4_UnresolvedIsAnErrorValue ==
    /\ (addr.pc \in {"maybe", "resolved"} /\ Unmatched(addr.input)) =>
        /\ addr.maybe.error # None
        /\ addr.maybe.error.type = "ResolveError"
        /\ InSeq(addr.input.path_component, addr.maybe.error.args)
        /\ InSeq(<<addr.input.description_of_origin>>, addr.maybe.error.args)
        /\ InSeq(IF addr.input.target_component = "" THEN addr.input.path_component
                 ELSE Append(Append(addr.input.path_component, ":"),
                             addr.input.target_component),
                 addr.maybe.error.args)
    /\ addr.pc = "resolved" =>
        IF addr.maybe.error # None
        THEN addr.out.kind = "raised" /\ addr.out.error = addr.maybe.error
        ELSE addr.out.kind = "value" /\ addr.out.address = addr.maybe.address

\* no/such/path:tgt has been refused and the error raised.
C4_Witness ==
    /\ addr.pc = "resolved" /\ addr.out.kind = "raised"
    /\ addr.input.path_component = <<"no", "such", "path">>
    /\ addr.input.target_component = "tgt"
    /\ InSeq(<<"no", "such", "path", ":", "tgt">>, addr.out.error.args)

\* C9: the address is file-backed exactly when the path component matches a
\* file; otherwise it is directory-backed exactly when the path component
\* matches a directory or is empty, and an empty path component makes no
\* filesystem request.
C9_FileBeforeDirectory ==
    addr.pc \in {"maybe", "resolved"} =>
        LET path == addr.input.path_component
        IN  /\ (addr.maybe.address.kind = "file") = (path \in exists.files)
            /\ (addr.maybe.address.kind = "dir")
                 = (path \notin exists.files /\ (path \in exists.dirs \/ path = <<>>))
            /\ (addr.maybe.error = None) = (addr.maybe.address.kind \in {"file", "dir"})
            /\ globs = IF path = <<>> THEN 0 ELSE 1

\* A path component that matches a file and a directory gave a file-backed
\* address.
C9_Witness ==
    /\ addr.pc = "resolved"
    /\ addr.input.path_component \in exists.files \cap exists.dirs
    /\ addr.out.address.kind = "file"

(***************************************************************************)
(* Properties of target lookup.                                            *)
(***************************************************************************)
\* The names a directory declares, as a set.
DeclaredNameSet(content) ==
    {DeclaredNames(content)[i] : i \in 1..Len(DeclaredNames(content))}

\* The paths of the address maps of the directory of key k that declare the
\* name: its files with a target statement of that name, and its synthetic
\* maps with that target.
DeclaringPaths(k, name) ==
    LET content == fs[DirOf(k)]
    IN  {DirOf(k) \o <<content.files[i].path>> :
            i \in {i \in 1..Len(content.files) :
                        InSeq(Target(name), content.files[i].stmts)}}
        \cup {content.synthetic[j].path :
                j \in {j \in 1..Len(content.synthetic) :
                            InSeq(name, content.synthetic[j].targets)}}

\* The lookup of the rule has reached the snapshot of its directory.
LookedUp ==
    /\ rule.pc = "done"
    /\ rule.name \in {"find_build_file", "find_target_adaptor"}
    /\ ~(rule.name = "find_target_adaptor" /\ rule.request.address.file # "")
    /\ HasFamily(rule.request.address.spec_path)

\* C11: a lookup whose (owning) target name is absent from the snapshot of its
\* directory raises a ResolveError made of the requester's description of
\* origin, the name, the namespace of that directory and the sorted target
\* names of that directory; a lookup whose name is present returns the record
\* of that target, from an address map of that directory.
C11_AbsentNameIsResolveError ==
    LookedUp =>
        LET address == rule.request.address
            k == address.spec_path
            names == DeclaredNameSet(fs[DirOf(k)])
        IN  IF address.target \notin names
            THEN /\ rule.out.kind = "raised"
                 /\ rule.out.error.type = "ResolveError"
                 /\ rule.out.error.args[2] = rule.request.description_of_origin
                 /\ rule.out.error.args[3] = <<address.target>>
                 /\ rule.out.error.args[4] = k
                 /\ rule.out.error.args[5] = SortedNames(names)
            ELSE /\ rule.out.kind = "value"
                 /\ IF rule.name = "find_target_adaptor"
                    THEN /\ rule.out.value.name = address.target
                         /\ rule.out.value.description_of_origin
                                \in DeclaringPaths(k, address.target)
                    ELSE /\ rule.out.value.address.spec_path = k
                         /\ rule.out.value.address.target = address.target
                         /\ rule.out.value.rel_path \in DeclaringPaths(k, address.target)

\* a:nope from a BUILD file has been refused with the three names a declares.
C11_Witness ==
    /\ rule.pc = "done" /\ rule.name = "find_target_adaptor"
    /\ rule.request = RuleRequest(Address(<<"a">>, "nope", ""), <<>>, <<"a BUILD file">>)
    /\ rule.out.kind = "raised" /\ Len(rule.out.error.args) > 1
    /\ rule.out.error.args[2] = <<"a BUILD file">>
    /\ rule.out.error.args[5] = <<"lib", "lib2", "syn">>

\* C12: find_build_file looks a generated target up under its target
\* generator: the error of an absent name names the generator, and for a
\* present name the result is the requested generated address itself with the
\* path of the file that declares the generator; for any other address it is
\* the address with the path of the file that declares it.
C12_GeneratedLooksUpItsGenerator ==
    (LookedUp /\ rule.name = "find_build_file") =>
        LET address == rule.request.address
            k == address.spec_path
        IN  IF address.target \in DeclaredNameSet(fs[DirOf(k)])
            THEN /\ rule.out.kind = "value"
                 /\ rule.out.value.address = address
                 /\ rule.out.value.rel_path \in DeclaringPaths(k, address.target)
            ELSE /\ rule.out.kind = "raised"
                 /\ rule.out.error.args[1] = k \o <<":", address.target>>

\* The target generated for a/f.py by lib2 is found in a/BUILD.b, the second
\* file of a.
C12_Witness ==
    /\ rule.pc = "done" /\ rule.name = "find_build_file"
    /\ rule.request.address = Address(<<"a">>, "lib2", "f.py")
    /\ rule.out.kind = "value"
    /\ rule.out.value = BuildFileAddress(Address(<<"a">>, "lib2", "f.py"), <<"a", "BUILD.b">>)

(***************************************************************************)
(* Properties of the parse of a directory.                                 *)
(***************************************************************************)
\* C13: the files of a directory are parsed in the order of the file read with
\* one Defaults builder and one pair of rule builders, frozen after the last
\* file: the frozen Defaults and rule sets of the snapshot are those of all
\* statements of all files, in file order then statement order, applied to
\* the builders as if they were the statements of one file.
C13_FilesShareTheBuilders ==
    \A k \in Keys :
        (seed[k] # None /\ HasFamily(k)) =>
            LET stmts == Statements(fs[DirOf(k)].files, 1)
                merged == EvalStatements(k, stmts, 1,
                                         CreateParserStates(k, seed[k], rulesImpl))
                family == result[k].address_family
            IN  /\ family.defaults = merged.defaults
                /\ family.dependents_rules = merged.dependents
                /\ family.dependencies_rules = merged.dependencies

\* With a rule implementation, the root has what its two files set between
\* them; a, below it, has its second file override its first; a/b, with the
\* files of a in the other order, has the first file of a override the second.
C13_Witness ==
    /\ rulesImpl
    /\ fs[ROOT] = SplitContent /\ HasFamily(DOT)
    /\ result[DOT].address_family.defaults = ("tgt" :> "50") @@ ("other" :> "2")
    /\ result[DOT].address_family.dependents_rules = [rules |-> "in1"]
    /\ result[DOT].address_family.dependencies_rules = [rules |-> "out2"]
    /\ fs[<<"a">>] = TwoFileContent /\ HasFamily(<<"a">>)
    /\ result[<<"a">>].address_family.defaults = ("tgt" :> "30") @@ ("other" :> "1")
    /\ fs[<<"a", "b">>] = ReversedContent(TwoFileContent) /\ HasFamily(<<"a", "b">>)
    /\ result[<<"a", "b">>].address_family.defaults = ("tgt" :> "20") @@ ("other" :> "1")

\* The synthetic address maps merged into a family: they follow the address
\* maps of the files.
MergedSynthetic(k) ==
    LET maps == result[k].address_family.address_maps
        files == Len(maps) - Len(fs[DirOf(k)].synthetic)
    IN  [j \in 1..Len(fs[DirOf(k)].synthetic) |-> maps[files + j]]

\* C14: in every published snapshot, whatever the number of files of the
\* directory, every synthetic address map has had apply_defaults called on it,
\* and only with the frozen Defaults of the snapshot.
C14_SyntheticDefaultsApplied ==
    \A k \in Keys :
        HasFamily(k) =>
            \A j \in 1..Len(MergedSynthetic(k)) :
                LET applied == MergedSynthetic(k)[j].applied
                IN  /\ applied # <<>>
                    /\ \A i \in 1..Len(applied) :
                            applied[i] = result[k].address_family.defaults

\* C15: a published value never changes: the outcome of parse_address_family
\* for a directory, the SyntheticAddressMaps a request has returned, and the
\* outcome of evaluate_preludes stay as they are in every later step.
C15_PublishedNeverChanges ==
    [][/\ \A k \in Keys :
            /\ result[k] # None => result'[k] = result[k]
            /\ syntheticMaps[k] # None => syntheticMaps'[k] = syntheticMaps[k]
       /\ prelude.pc = "done" => prelude' = prelude]_vars

(***************************************************************************)
(* Properties of get_dependencies_rule_action.                             *)
(***************************************************************************)
\* get_dependencies_rule_action has finished.
Evaluated == rule.name = "get_dependencies_rule_action" /\ rule.pc = "done"

\* The directory of the address declares its (owning) target name.
Declared(address) == address.target \in DeclaredNameSet(fs[DirOf(address.spec_path)])

\* The addresses of a request: its source and its dependencies.
RequestAddresses(request) ==
    {request.address} \cup {request.dependencies[i] : i \in 1..Len(request.dependencies)}

\* C16: without a rule implementation no directory has a rule table, and
\* get_dependencies_rule_action returns a value that holds ALLOW for every
\* dependency of every request: it asks for no directory, looks nothing up and
\* never fails.
C16_NoImplementationAllowsAll ==
    (~rulesImpl /\ rule.name = "get_dependencies_rule_action") =>
        /\ rule.pc = "done"
        /\ rule.out.kind = "value"
        /\ \A d \in RequestAddresses(rule.request) : ActionFor(rule.out.value, d) = "ALLOW"
        /\ rule.calls = <<>>
        /\ \A k \in Keys : node[k] = "none"

\* Without an implementation, a dependency on a target that a does not
\* declare is allowed.
C16_Witness ==
    /\ ~rulesImpl /\ Evaluated
    /\ rule.request.dependencies = <<Address(<<"a">>, "nope", "")>>
    /\ ActionFor(rule.out.value, Address(<<"a">>, "nope", "")) = "ALLOW"

\* The stricter of the actions two rule sets ask for.
Stricter(x, y) ==
    IF "DENY" \in {x, y} THEN "DENY" ELSE IF "WARN" \in {x, y} THEN "WARN" ELSE "ALLOW"

\* C17: with a rule implementation, a request all of whose addresses can be
\* looked up returns a value: for every dependency, the implementation was
\* called with the record of the source's target generator, the
\* dependencies_rules of the source's snapshot, the record of the dependency's
\* target generator and the dependents_rules of the dependency's snapshot, and
\* its ALLOW, WARN or DENY is held under the dependency address as requested.
\* The request fails only when an address cannot be looked up.
C17_ActionFromBothRuleSets ==
    (rulesImpl /\ Evaluated) =>
        LET request == rule.request
            deps == request.dependencies
            source == request.address
        IN  /\ (rule.out.kind = "value") = (\A a \in RequestAddresses(request) : Declared(a))
            /\ rule.out.kind = "value" =>
                /\ DOMAIN rule.out.value.dependencies_rule = {deps[i] : i \in 1..Len(deps)}
                /\ Len(rule.calls) = Len(deps)
                /\ \A i \in 1..Len(deps) :
                    LET call == rule.calls[i]
                        source_family == result[source.spec_path].address_family
                        dependency_family == result[deps[i].spec_path].address_family
                    IN  /\ call.source_adaptor.name = source.target
                        /\ call.source_adaptor.description_of_origin
                                \in DeclaringPaths(source.spec_path, source.target)
                        /\ call.source_path = source.spec_path
                        /\ call.dependencies_rules = source_family.dependencies_rules
                        /\ call.target_adaptor.name = deps[i].target
                        /\ call.target_adaptor.description_of_origin
                                \in DeclaringPaths(deps[i].spec_path, deps[i].target)
                        /\ call.target_path = deps[i].spec_path
                        /\ call.dependents_rules = dependency_family.dependents_rules
                        /\ rule.out.value.dependencies_rule[deps[i]]
                                = Stricter(source_family.dependencies_rules.rules,
                                           dependency_family.dependents_rules.rules)

\* The target generated for a/f.py, in a directory that allows everything,
\* depends on lib of the root, which warns its dependents, and on itself: the
\* first is WARN, the second ALLOW, both as values.
C17_Witness ==
    /\ rulesImpl /\ Evaluated /\ rule.out.kind = "value"
    /\ rule.request.address = Address(<<"a">>, "lib", "f.py")
    /\ rule.request.dependencies = <<Address(ROOT, "lib", ""), Address(<<"a">>, "lib", "f.py")>>
    /\ rule.out.value.dependencies_rule[Address(ROOT, "lib", "")] = "WARN"
    /\ rule.out.value.dependencies_rule[Address(<<"a">>, "lib", "f.py")] = "ALLOW"

\* What a finished request says of one dependency: its action, or that the
\* request failed.
OutcomeFor(out, d) == IF out.kind = "value" THEN ActionFor(out.value, d) ELSE "failure"

\* What the request with d as its only dependency says of d, in the same
\* session.
Alone(request, d) ==
    LET alone == RuleRequest(request.address, <<d>>, request.description_of_origin)
    IN  IF \E k \in SpecPaths(alone) : AddressFamilyOf(k).kind = "raised" THEN "failure"
        ELSE OutcomeFor(GetDependenciesRuleActionOf(alone, Families(SpecPaths(alone))).out, d)

RECURSIVE Flattened(_, _)
Flattened(files, i) ==
    IF i > Len(files) THEN <<>>
    ELSE [j \in 1..Len(files[i].stmts) |-> [file |-> i, stmt |-> files[i].stmts[j]]]
            \o Flattened(files, i + 1)

\* The statements before statement i that bind the name.
Binders(all, i, name) == {j \in 1..(i - 1) : all[j].stmt.key = name}

\* Statement i reads a name that nothing before it binds.
Unbound(all, i) ==
    /\ all[i].stmt.op = "from"
    /\ all[i].stmt.val \notin BuiltinSymbols
    /\ Binders(all, i, all[i].stmt.val) = {}

\* The files whose execution raises, and the files that import.
RaisingFiles(files) ==
    LET all == Flattened(files, 1)
    IN  {all[i].file : i \in {j \in 1..Len(all) : all[j].stmt = Raise \/ Unbound(all, j)}}
ImportingFiles(files) == {i \in 1..Len(files) : HasImport(files[i].stmts)}

\* The value statement i binds: its constant, or what the last binder of the
\* name it reads has bound.
RECURSIVE BoundValue(_, _)
BoundValue(all, i) ==
    IF all[i].stmt.op = "assign" THEN all[i].stmt.val
    ELSE LET binders == Binders(all, i, all[i].stmt.val)
         IN  IF binders = {} THEN "builtin"
             ELSE BoundValue(all, CHOOSE j \in binders : \A h \in binders : h <= j)

\* Every top-level name of the prelude files with its last definition.
LastDefinitions(files) ==
    LET all == Flattened(files, 1)
    IN  [n \in {all[i].stmt.key : i \in 1..Len(all)} \ {"__builtins__"} |->
            BoundValue(all, CHOOSE i \in 1..Len(all) :
                                /\ all[i].stmt.key = n
                                /\ \A j \in 1..Len(all) : all[j].stmt.key = n => j <= i)]

\* C19: no directory is read and no declaration file is parsed before
\* evaluate_preludes has returned; when no prelude file fails, the files have
\* been executed in their order into one symbol table, in which a name read by
\* a later file has the value an earlier file gave it, every top-level name
\* has its last definition, and `__builtins__` is no name.
C19_PreludesShareOneTable ==
    /\ (prelude.pc # "done" \/ prelude.out.kind # "value") =>
            /\ \A d \in TreeDirs : reads[d] = 0 /\ evals[d] = 0
            /\ \A k \in Keys : node[k] \notin {"await"} /\ ~Resolved(k)
    /\ (prelude.pc = "done" /\ RaisingFiles(prelude.files) \cup ImportingFiles(prelude.files) = {}) =>
            /\ prelude.out.kind = "value"
            /\ prelude.out.evaluated = Len(prelude.files)
            /\ prelude.out.symbols = LastDefinitions(prelude.files)
            /\ "__builtins__" \notin DOMAIN prelude.out.symbols

\* b.py reads the X of a.py and defines Y again, c.py binds `__builtins__`,
\* and a directory has been parsed with the table.
C19_Witness ==
    /\ prelude.pc = "done" /\ prelude.out.kind = "value"
    /\ prelude.files = <<Defining("a.py"), Using("b.py"), Overriding("c.py")>>
    /\ prelude.out.symbols["Z"] = "1"
    /\ prelude.out.symbols["Y"] = "2"
    /\ DOMAIN prelude.out.symbols = {"X", "Y", "Z", "W"}
    /\ \E k \in Keys : Resolved(k) /\ evals[DirOf(k)] > 0

\* The smallest of a set of file indexes.
First(indexes) == CHOOSE i \in indexes : \A j \in indexes : i <= j

C21_EveryFailureIsResolveError ==
    (rule.pc = "done" /\ rule.out.kind = "raised") =>
        /\ rule.out.error.type = "ResolveError"
        /\ \E i \in 1..Len(rule.out.error.args) :
                rule.out.error.args[i] = rule.request.description_of_origin

\* The run of parse_address_family for the key has raised.
Failed(k) == node[k] = "done" /\ result[k].kind = "raised"

\* The directories whose snapshots the rule asks for.
Needed ==
    CASE rule.name \in {"find_build_file", "find_target_adaptor"} ->
            {rule.request.address.spec_path}
      [] rule.name = "get_dependencies_rule_action" /\ rulesImpl -> SpecPaths(rule.request)
      [] OTHER -> {}

\* C22: a directory with declarations one of whose parents has failed fails
\* with the error of a failed parent, whatever its other parents are, and its
\* own statements are never evaluated; no directory below the root is read or
\* evaluated a second time; a lookup or a rule evaluation that asks for a
\* directory that has failed fails too, with the error of a directory it has
\* asked for.
C22_FailurePropagates ==
    /\ \A k \in Keys :
        (node[k] = "done" /\ Declares(k) /\ \E p \in ParentKeys(k) : Failed(p)) =>
            /\ Failed(k)
            /\ \E p \in ParentKeys(k) : Failed(p) /\ result[k] = result[p]
            /\ evals[DirOf(k)] = 0
    /\ \A d \in TreeDirs \ {ROOT} : reads[d] <= 1 /\ evals[d] <= 1
    /\ (rule.pc = "done" /\ \E k \in Needed : Failed(k)) =>
            /\ rule.out.kind = "raised"
            /\ \E k \in Needed :
                /\ node[k] = "done" /\ AddressFamilyOf(k).kind = "raised"
                /\ rule.out.error = AddressFamilyOf(k).error

\* The file of the root fails: a/b, whose parent a has declarations that
\* parse, has failed without evaluating its own, and the lookup of a/b:lib has
\* failed with the error of the root.
C22_Witness ==
    /\ fs[ROOT] = FailingContent /\ fs[<<"a">>] = PlainContent
    /\ fs[<<"a", "b">>] = PlainContent
    /\ Failed(<<"a", "b">>) /\ evals[<<"a", "b">>] = 0
    /\ rule.pc = "done" /\ rule.name = "find_build_file"
    /\ rule.request.address = Address(<<"a", "b">>, "lib", "")
    /\ rule.out.kind = "raised"
    /\ rule.out.error.type = "ParseError"
    /\ rule.out.error = result[DOT].error

(***************************************************************************)
(* Properties of the requests of the rules.                                *)
(***************************************************************************)
\* The request keys of the proper ancestors of a directory: its path cut
\* after fewer components, "." for none.
AncestorKeys(k) ==
    {(IF n = 0 THEN DOT ELSE SubSeq(k, 1, n)) : n \in 0..(Len(PurePathParts(k)) - 1)}

\* C23: the files of a directory have been read exactly when its synthetic
\* address maps have been returned; a directory that awaits a parent has
\* requested every one of its ancestors; a rule that awaits an address family
\* has requested the directory of its address and of every dependency.
C23_SubRequestsIssuedTogether ==
    /\ \A k \in Keys :
        /\ (node[k] \in {"await", "done"}) = (syntheticMaps[k] # None)
        /\ node[k] \in {"await", "done"} => reads[DirOf(k)] > 0
        /\ node[k] \in {"none", "start"} /\ PurePathParts(k) # ROOT => reads[DirOf(k)] = 0
        /\ node[k] = "await" => \A p \in AncestorKeys(k) : node[p] # "none"
    /\ rule.pc = "await" =>
            \A address \in RequestAddresses(rule.request) : node[address.spec_path] # "none"

\* a/b awaits its two parents, both requested and none finished, while the
\* rule that has asked for a/b and for the root awaits both.
C23_Witness ==
    /\ node[<<"a", "b">>] = "await"
    /\ node[<<"a">>] = "start" /\ node[DOT] = "start"
    /\ rule.pc = "await" /\ rule.name = "get_dependencies_rule_action"
    /\ rule.request.address.spec_path = <<"a", "b">>
    /\ rule.request.dependencies[1].spec_path = ROOT
    /\ node[ROOT] = "start"

\* The number of components of the directory a key names.
Depth(k) == Len(PurePathParts(k))

\* C25: a step in which a directory starts to await starts requests for
\* proper ancestors of that directory only, each of a shorter path, and the
\* root never awaits; from some moment on every request for a directory that
\* has been made has come to its end.
C25_ResolutionTerminates ==
    /\ [][\A k \in Keys :
            (node[k] = "start" /\ node'[k] = "await") =>
                /\ Depth(k) > 0
                /\ \A p \in Keys :
                    (node[p] = "none" /\ node'[p] # "none") =>
                        p \in AncestorKeys(k) /\ Depth(p) < Depth(k)]_vars
    /\ <>[](\A k \in Keys : node[k] \in {"none", "done"})

\* a/b, with declarations, has awaited its parents a and the root and has
\* come to its end.
C25_Witness ==
    /\ Declares(<<"a", "b">>)
    /\ node[<<"a", "b">>] = "done" /\ node[<<"a">>] = "done" /\ node[DOT] = "done"
    /\ Resolved(<<"a", "b">>)

\* C26: the root is requested under one key: of "" and "." at most one is
\* ever requested, the statements of the root are evaluated at most once, and
\* two outcomes for the root are the same snapshot.
C26_RootHasOneKey ==
    /\ node[ROOT] = "none" \/ node[DOT] = "none"
    /\ evals[ROOT] <= 1
    /\ (node[ROOT] = "done" /\ node[DOT] = "done") => result[ROOT] = result[DOT]

MaxArgs == 3

\* The known options of a Go test binary that take no value.
BooleanTestFlags ==
    {<<"b", "e", "n", "c", "h", "m", "e", "m">>,
     <<"f", "a", "i", "l", "f", "a", "s", "t">>,
     <<"s", "h", "o", "r", "t">>,
     <<"v">>}

\* The known options of a Go test binary that take a value.
ValueTestFlags ==
    {<<"b", "e", "n", "c", "h">>,
     <<"b", "e", "n", "c", "h", "t", "i", "m", "e">>,
     <<"b", "l", "o", "c", "k", "p", "r", "o", "f", "i", "l", "e">>,
     <<"b", "l", "o", "c", "k", "p", "r", "o", "f", "i", "l", "e", "r", "a", "t", "e">>,
     <<"c", "o", "u", "n", "t">>,
     <<"c", "o", "v", "e", "r", "p", "r", "o", "f", "i", "l", "e">>,
     <<"c", "p", "u">>,
     <<"c", "p", "u", "p", "r", "o", "f", "i", "l", "e">>,
     <<"f", "u", "z", "z">>,
     <<"f", "u", "z", "z", "m", "i", "n", "i", "m", "i", "z", "e", "t", "i", "m", "e">>,
     <<"f", "u", "z", "z", "t", "i", "m", "e">>,
     <<"l", "i", "s", "t">>,
     <<"m", "e", "m", "p", "r", "o", "f", "i", "l", "e">>,
     <<"m", "e", "m", "p", "r", "o", "f", "i", "l", "e", "r", "a", "t", "e">>,
     <<"m", "u", "t", "e", "x", "p", "r", "o", "f", "i", "l", "e">>,
     <<"m", "u", "t", "e", "x", "p", "r", "o", "f", "i", "l", "e", "f", "r", "a", "c", "t", "i", "o", "n">>,
     <<"o", "u", "t", "p", "u", "t", "d", "i", "r">>,
     <<"p", "a", "r", "a", "l", "l", "e", "l">>,
     <<"r", "u", "n">>,
     <<"s", "h", "u", "f", "f", "l", "e">>,
     <<"t", "i", "m", "e", "o", "u", "t">>,
     <<"t", "r", "a", "c", "e">>}

\* TEST_FLAGS: for each known option, whether it takes a value.
TEST_FLAGS == [name \in BooleanTestFlags \cup ValueTestFlags |-> name \in ValueTestFlags]

\* s[a:b] of a string, for 0 <= a.
Slice(s, a, b) == SubSeq(s, a + 1, b)

\* s.find(ch, start): the least index from start on where ch is, or -1.
Find(s, ch, start) ==
    LET hits == {j \in start..(Len(s) - 1) : s[j + 1] = ch}
    IN IF hits = {} THEN -1 ELSE CHOOSE j \in hits : \A h \in hits : j <= h

\* str() of a natural number.
RECURSIVE Str(_)
Str(n) ==
    LET digit == <<"0", "1", "2", "3", "4", "5", "6", "7", "8", "9">>[(n % 10) + 1]
    IN IF n < 10 THEN <<digit>> ELSE Append(Str(n \div 10), digit)

Seconds(n) == [seconds |-> n]

\* The index where the name of an option starts: after one dash or two.
StartIndex(arg) == IF arg[2] = "-" THEN 2 ELSE 1

\* The name of an option: up to its first "=" after the dashes, if any.
ArgName(arg) ==
    LET equals_index == Find(arg, "=", StartIndex(arg))
    IN IF equals_index # -1 THEN Slice(arg, StartIndex(arg), equals_index)
       ELSE Slice(arg, StartIndex(arg), Len(arg))

\* The value of an option with its "=", or the empty string.
OptionValue(arg) ==
    LET equals_index == Find(arg, "=", StartIndex(arg))
    IN IF equals_index # -1 THEN Slice(arg, equals_index, Len(arg)) ELSE <<>>

\* A known option with "test." before its name.
RewrittenArg(arg) ==
    Slice(arg, 0, StartIndex(arg)) \o <<"t", "e", "s", "t", ".">> \o ArgName(arg) \o OptionValue(arg)

\* The flag that carries the timeout of the target.
TimeoutArg(timeout_field_value) ==
    <<"-", "t", "e", "s", "t", ".", "t", "i", "m", "e", "o", "u", "t", "=">> \o Str(timeout_field_value.seconds) \o <<"s">>

\* The loop of transform_test_args from index i on: where it stopped and what
\* it had, or the IndexError of arg[0] on an empty argument.
RECURSIVE TransformLoop(_, _, _, _, _)
TransformLoop(args, i, results, next_arg_is_option_value, timeout_is_set) ==
    IF i >= Len(args)
    THEN [raised |-> FALSE, i |-> i, result |-> results, timeout_is_set |-> timeout_is_set]
    ELSE LET arg == args[i + 1]
             stop == [raised |-> FALSE, i |-> i + 1, result |-> Append(results, arg), timeout_is_set |-> timeout_is_set]
         IN IF next_arg_is_option_value
            THEN TransformLoop(args, i + 1, Append(results, arg), FALSE, timeout_is_set)
            ELSE IF arg = <<>>
            THEN [raised |-> TRUE, i |-> i + 1, result |-> results, timeout_is_set |-> timeout_is_set]
            ELSE IF arg[1] # "-"
            THEN stop
            ELSE IF arg = <<"-">> \/ arg = <<"-", "-">>
            THEN stop
            ELSE IF ArgName(arg) \in DOMAIN TEST_FLAGS
            THEN TransformLoop(args, i + 1, Append(results, RewrittenArg(arg)), TEST_FLAGS[ArgName(arg)] /\ OptionValue(arg) = <<>>, timeout_is_set \/ ArgName(arg) = <<"t", "i", "m", "e", "o", "u", "t">>)
            ELSE TransformLoop(args, i + 1, Append(results, arg), FALSE, timeout_is_set)

\* transform_test_args: the arguments for the test binary.
transform_test_args(args, timeout_field_value) ==
    LET loop == TransformLoop(args, 0, <<>>, FALSE, FALSE)
        timeout == IF ~loop.timeout_is_set /\ timeout_field_value # None
                   THEN <<TimeoutArg(timeout_field_value)>> ELSE <<>>
    IN IF loop.raised THEN Raises([type |-> "IndexError"])
       ELSE Returns(loop.result \o timeout \o Slice(args, loop.i, Len(args)))

\* The arguments of the test subsystem: empty, the terminators, options known
\* and unknown with one dash or two and with and without a value, and words.
TestArgs ==
    {<<>>,
     <<"-">>,
     <<"-", "-">>,
     <<"-", "v">>,
     <<"-", "-", "v", "=", "1">>,
     <<"-", "r", "u", "n">>,
     <<"-", "-", "r", "u", "n", "=", "x">>,
     <<"-", "t", "i", "m", "e", "o", "u", "t">>,
     <<"-", "t", "i", "m", "e", "o", "u", "t", "=", "5">>,
     <<"x">>,
     <<"t", "i", "m", "e", "o", "u", "t">>,
     <<"-", "z", "z">>}

TimeoutFieldValues == {None, Seconds(5), Seconds(10)}

ArgLists == UNION {[1..n -> TestArgs] : n \in 0..MaxArgs}

\* A call of transform_test_args.
TransformTestArgs ==
    /\ go.pc = "idle"
    /\ go' = [go EXCEPT !.pc = "done", !.out = transform_test_args(go.args, go.timeout_field_value)]
    /\ UNCHANGED <<fs, rulesImpl, node, seed, result, caller, reads, evals, exists, addr, globs, syntheticMaps, rule, prelude>>

\* The session has no part in it: its repository is empty and stays idle.
InitArgs ==
    /\ fs = [d \in TreeDirs |-> NoContent]
    /\ rulesImpl = FALSE
    /\ node = [k \in Keys |-> "none"]
    /\ seed = [k \in Keys |-> None]
    /\ result = [k \in Keys |-> None]
    /\ caller = [c \in 1..NumCallers |-> IdleCaller]
    /\ reads = [d \in TreeDirs |-> 0]
    /\ evals = [d \in TreeDirs |-> 0]
    /\ exists = [files |-> {}, dirs |-> TreeDirs]
    /\ addr = IdleAddr
    /\ globs = 0
    /\ syntheticMaps = [k \in Keys |-> None]
    /\ rule = IdleRule
    /\ prelude = NoPreludes
    /\ go \in [pc : {"idle"}, args : ArgLists, timeout_field_value : TimeoutFieldValues, out : {None}]

NextArgs == TransformTestArgs

SpecArgs == InitArgs /\ [][NextArgs]_vars

\* What an argument list is to a Go test binary, argument by argument: an
\* option, the value of the option before it, the argument that ends the
\* options (the first that is no option, "-" or "--"), or one after that.
IsOption(arg) == arg # <<>> /\ arg[1] = "-" /\ arg # <<"-">> /\ arg # <<"-", "-">>
KnownFlag(arg) == IsOption(arg) /\ ArgName(arg) \in DOMAIN TEST_FLAGS
AwaitsValue(arg) == KnownFlag(arg) /\ TEST_FLAGS[ArgName(arg)] /\ Find(arg, "=", StartIndex(arg)) = -1

RECURSIVE Roles(_, _, _)
Roles(args, j, mode) ==
    IF j > Len(args) THEN <<>>
    ELSE LET arg == args[j]
         IN IF mode = "rest" THEN <<"rest">> \o Roles(args, j + 1, "rest")
            ELSE IF mode = "value" THEN <<"value">> \o Roles(args, j + 1, "option")
            ELSE IF ~IsOption(arg) THEN <<"stop">> \o Roles(args, j + 1, "rest")
            ELSE <<"option">> \o Roles(args, j + 1, IF AwaitsValue(arg) THEN "value" ELSE "option")

\* The arguments with each known option among the processed ones rewritten.
Rewritten(args) ==
    LET roles == Roles(args, 1, "option")
    IN [j \in 1..Len(args) |-> IF roles[j] = "option" /\ KnownFlag(args[j]) THEN RewrittenArg(args[j]) ELSE args[j]]

\* Where the argument that ends the options is, 0 without one.
StopAt(args) ==
    LET roles == Roles(args, 1, "option")
        stops == {j \in 1..Len(args) : roles[j] = "stop"}
    IN IF stops = {} THEN 0 ELSE CHOOSE j \in stops : TRUE

\* A timeout option is among the processed options.
TimeoutRecognised(args) ==
    LET roles == Roles(args, 1, "option")
    IN \E j \in 1..Len(args) : roles[j] = "option" /\ ArgName(args[j]) = <<"t", "i", "m", "e", "o", "u", "t">>

Without(s, p) == SubSeq(s, 1, p - 1) \o SubSeq(s, p + 1, Len(s))

\* C28: transform_test_args returns on every argument list, and what it
\* returns is the arguments in their order, each once, the known options
\* among the processed ones rewritten to test.<name> with their dashes and
\* value and all others unchanged, with at most one element inserted.
C28_ArgsKeptInOrder ==
    go.pc = "done" =>
        /\ go.out.kind = "value"
        /\ \/ go.out.value = Rewritten(go.args)
           \/ \E p \in 1..Len(go.out.value) : Without(go.out.value, p) = Rewritten(go.args)

\* C29: what transform_test_args returns has the timeout flag of the target
\* inserted once exactly when there is a timeout and no timeout option among
\* the processed options, and the flag stands before the argument that ends
\* the options.
C29_TimeoutInsertedAmongOptions ==
    go.pc = "done" /\ go.out.kind = "value" =>
        IF go.timeout_field_value # None /\ ~TimeoutRecognised(go.args)
        THEN \E p \in 1..Len(go.out.value) :
                /\ go.out.value[p] = TimeoutArg(go.timeout_field_value)
                /\ Without(go.out.value, p) = Rewritten(go.args)
                /\ StopAt(go.args) # 0 => p <= StopAt(go.args)
        ELSE go.out.value = Rewritten(go.args)

\* What a stage of run_go_tests can exit with when it fails.
ExitCodes == {1, 2}

\* What a fallible request of a stage returns: its product, or no product and
\* the exit code and the output of the failed stage.
Fallible(stage) ==
    {[output |-> TRUE, exit_code |-> 0, stdout |-> <<>>, stderr |-> <<>>]} \cup {[output |-> FALSE, exit_code |-> c, stdout |-> <<stage \o " stdout">>, stderr |-> <<stage \o " stderr">>] : c \in ExitCodes}

\* What the generation of the test main returns.
GeneratedTestMains ==
    {[failed_exit_code_and_stderr |-> f, has_tests |-> t, has_xtests |-> x] : f \in {<<>>} \cup {<<c, "testmain stderr">> : c \in ExitCodes}, t \in BOOLEAN, x \in BOOLEAN}

\* What a request without a fallible product does: it returns or it fails,
\* and then the rule that awaits it fails with it.
Infallible(stage) == {[output |-> TRUE], [output |-> FALSE, error |-> [type |-> "Exception", stage |-> stage]]}

\* x or "" of an optional string.
OrEmpty(x) == IF x = <<>> THEN "" ELSE x[1]

\* compilation_failure of run_go_tests.
compilation_failure(exit_code, stdout, stderr) ==
    [skipped |-> FALSE, exit_code |-> exit_code, stdout |-> OrEmpty(stdout), stderr |-> OrEmpty(stderr)]

\* TestResult.skip.
TestResultSkip == [skipped |-> TRUE]

\* run_go_tests with the result of a request of a stage.
Received(g, stage, got) == [g EXCEPT !.results = Append(@, [stage |-> stage, result |-> got])]

\* run_go_tests with the requests of the next stages issued.
Awaiting(g, pc, stages) == [g EXCEPT !.pc = pc, !.stages = @ \o stages]

\* run_go_tests after it returned a result or failed.
Returned(g, value) == [g EXCEPT !.pc = "done", !.out = Returns(value)]
Raising(g, error) == [g EXCEPT !.pc = "done", !.out = Raises(error)]

GoTestsOnly == UNCHANGED <<fs, rulesImpl, node, seed, result, caller, reads, evals, exists, addr, globs, syntheticMaps, rule, prelude>>

\* run_go_tests up to its requests of the analysis, the digest and the
\* dependencies of the package, which it issues together.
RunGoTests ==
    /\ go.pc = "idle"
    /\ go' = Awaiting(go, "analysis", <<"build_opts", "analysis", "digest", "dependencies">>)
    /\ GoTestsOnly

\* The analysis and the digest are back: either failed and run_go_tests
\* returns its failure, or it requests the test main.
PackageAnalysed ==
    /\ go.pc = "analysis"
    /\ \E maybe_pkg_analysis \in Fallible("analysis"), maybe_pkg_digest \in Fallible("digest") :
        LET g == Received(Received(go, "analysis", maybe_pkg_analysis), "digest", maybe_pkg_digest)
        IN go' = IF ~maybe_pkg_analysis.output
                 THEN Returned(g, compilation_failure(maybe_pkg_analysis.exit_code, <<>>, maybe_pkg_analysis.stderr))
                 ELSE IF ~maybe_pkg_digest.output
                 THEN Returned(g, compilation_failure(maybe_pkg_digest.exit_code, <<>>, maybe_pkg_digest.stderr))
                 ELSE Awaiting(g, "testmain", <<"testmain">>)
    /\ GoTestsOnly

\* The test main is back: failed, without tests, or with tests and then
\* run_go_tests requests the build request of the package under test.
TestMainGenerated ==
    /\ go.pc = "testmain"
    /\ \E testmain \in GeneratedTestMains :
        LET g == [Received(go, "testmain", testmain) EXCEPT !.has_xtests = testmain.has_xtests]
        IN go' = IF testmain.failed_exit_code_and_stderr # <<>>
                 THEN Returned(g, compilation_failure(testmain.failed_exit_code_and_stderr[1], <<>>, <<testmain.failed_exit_code_and_stderr[2]>>))
                 ELSE IF ~testmain.has_tests /\ ~testmain.has_xtests
                 THEN Returned(g, TestResultSkip)
                 ELSE Awaiting(g, "test_pkg_request", <<"test_pkg_request">>)
    /\ GoTestsOnly

\* What run_go_tests does once it has the build requests of main_direct_deps:
\* with coverage it builds them, without it goes on to the main package.
BuildRequested(g) ==
    IF g.use_coverage THEN Awaiting(g, "main_direct_deps", <<"main_direct_deps">>)
    ELSE Awaiting(g, "main_pkg", <<"main_pkg">>)

\* The build request of the package under test is back.
TestPkgBuildRequested ==
    /\ go.pc = "test_pkg_request"
    /\ \E maybe_test_pkg_build_request \in Fallible("test_pkg_request") :
        LET g == Received(go, "test_pkg_request", maybe_test_pkg_build_request)
        IN go' = IF ~maybe_test_pkg_build_request.output
                 THEN Returned(g, compilation_failure(maybe_test_pkg_build_request.exit_code, <<>>, maybe_test_pkg_build_request.stderr))
                 ELSE IF g.has_xtests
                 THEN Awaiting(g, "xtest_pkg_request", <<"xtest_pkg_request">>)
                 ELSE BuildRequested(g)
    /\ GoTestsOnly

\* The build request of the package of the xtests is back.
XtestPkgBuildRequested ==
    /\ go.pc = "xtest_pkg_request"
    /\ \E maybe_xtest_pkg_build_request \in Fallible("xtest_pkg_request") :
        LET g == Received(go, "xtest_pkg_request", maybe_xtest_pkg_build_request)
        IN go' = IF ~maybe_xtest_pkg_build_request.output
                 THEN Returned(g, compilation_failure(maybe_xtest_pkg_build_request.exit_code, <<>>, maybe_xtest_pkg_build_request.stderr))
                 ELSE BuildRequested(g)
    /\ GoTestsOnly

\* With coverage: the packages of main_direct_deps are built, by a request
\* that has no fallible product, and then the coverage setup is generated.
MainDirectDepsBuilt ==
    /\ go.pc = "main_direct_deps"
    /\ \E built_main_direct_deps \in Infallible("main_direct_deps") :
        LET g == Received(go, "main_direct_deps", built_main_direct_deps)
        IN go' = IF ~built_main_direct_deps.output
                 THEN Raising(g, built_main_direct_deps.error)
                 ELSE Awaiting(g, "coverage_setup", <<"coverage_setup">>)
    /\ GoTestsOnly

\* With coverage: the coverage setup is back and the main package is requested.
CoverageSetupGenerated ==
    /\ go.pc = "coverage_setup"
    /\ go' = Awaiting(go, "main_pkg", <<"main_pkg">>)
    /\ GoTestsOnly

\* The main package is back: failed, or built and then the binary is linked.
MainPkgBuilt ==
    /\ go.pc = "main_pkg"
    /\ \E maybe_built_main_pkg \in Fallible("main_pkg") :
        LET g == Received(go, "main_pkg", maybe_built_main_pkg)
        IN go' = IF ~maybe_built_main_pkg.output
                 THEN Returned(g, compilation_failure(maybe_built_main_pkg.exit_code, maybe_built_main_pkg.stdout, maybe_built_main_pkg.stderr))
                 ELSE Awaiting(g, "link", <<"import_config", "link">>)
    /\ GoTestsOnly

\* The arguments of the Go test subsystem in a run: none, or an empty one.
GoTestArgs == {<<>>, <<<<>>>>, <<<<"-", "v">>>>}

\* The binary is back, by a request that has no fallible product; the
\* arguments of the test binary are put together and it is run.
BinaryLinked ==
    /\ go.pc = "link"
    /\ \E binary \in Infallible("link") :
        LET g == Received(go, "link", binary)
            transformed == transform_test_args(g.args, g.timeout_field_value)
            maybe_cover_args == IF g.use_coverage THEN <<<<"-", "t", "e", "s", "t", ".", "c", "o", "v", "e", "r", "p", "r", "o", "f", "i", "l", "e", "=", "c", "o", "v", "e", "r", ".", "o", "u", "t">>>> ELSE <<>>
        IN go' = IF ~binary.output THEN Raising(g, binary.error)
                 ELSE IF transformed.kind = "raised" THEN Raising(g, transformed.error)
                 ELSE [Awaiting(g, "run", <<"run">>) EXCEPT !.test_run_args = <<<<".", "/", "t", "e", "s", "t", "_", "r", "u", "n", "n", "e", "r">>>> \o transformed.value \o maybe_cover_args]
    /\ GoTestsOnly

\* The process of the test binary is back, with whatever exit code.
TestsRun ==
    /\ go.pc = "run"
    /\ \E exit_code \in {0} \cup ExitCodes :
        go' = Returned(Received(go, "run", [output |-> TRUE, exit_code |-> exit_code]), [skipped |-> FALSE, exit_code |-> exit_code, stdout |-> "run stdout", stderr |-> "run stderr"])
    /\ GoTestsOnly

InitGoTests ==
    /\ fs = [d \in TreeDirs |-> NoContent]
    /\ rulesImpl = FALSE
    /\ node = [k \in Keys |-> "none"]
    /\ seed = [k \in Keys |-> None]
    /\ result = [k \in Keys |-> None]
    /\ caller = [c \in 1..NumCallers |-> IdleCaller]
    /\ reads = [d \in TreeDirs |-> 0]
    /\ evals = [d \in TreeDirs |-> 0]
    /\ exists = [files |-> {}, dirs |-> TreeDirs]
    /\ addr = IdleAddr
    /\ globs = 0
    /\ syntheticMaps = [k \in Keys |-> None]
    /\ rule = IdleRule
    /\ prelude = NoPreludes
    /\ go \in [pc : {"idle"}, use_coverage : BOOLEAN, args : GoTestArgs, timeout_field_value : {None, Seconds(10)}, has_xtests : {FALSE}, stages : {<<>>}, results : {<<>>}, test_run_args : {<<>>}, out : {None}]

NextGoTests ==
    \/ RunGoTests
    \/ PackageAnalysed
    \/ TestMainGenerated
    \/ TestPkgBuildRequested
    \/ XtestPkgBuildRequested
    \/ MainDirectDepsBuilt
    \/ CoverageSetupGenerated
    \/ MainPkgBuilt
    \/ BinaryLinked
    \/ TestsRun

SpecGoTests == InitGoTests /\ [][NextGoTests]_vars

\* The stages of run_go_tests that compile: the analysis and the digest of
\* the package, its test main, the build requests and the builds.
CompilationStages == {"analysis", "digest", "testmain", "test_pkg_request", "xtest_pkg_request", "main_direct_deps", "main_pkg"}
BuildStages == {"test_pkg_request", "xtest_pkg_request", "main_direct_deps", "main_pkg"}

\* The place of a stage in run_go_tests; stages requested together share it.
StageOrder(stage) ==
    CASE stage \in {"build_opts"} -> 0
      [] stage \in {"analysis", "digest", "dependencies"} -> 1
      [] stage = "testmain" -> 2
      [] stage = "test_pkg_request" -> 3
      [] stage = "xtest_pkg_request" -> 4
      [] stage = "main_direct_deps" -> 5
      [] stage = "coverage_setup" -> 6
      [] stage = "main_pkg" -> 7
      [] stage \in {"import_config", "link"} -> 8
      [] stage = "run" -> 9

\* The result of a stage is its failure.
StageFailed(r) ==
    IF r.stage = "testmain" THEN r.result.failed_exit_code_and_stderr # <<>> ELSE ~r.result.output

\* A test result carries the exit code and the stderr of a failed stage.
Carries(value, r) ==
    IF r.stage = "testmain"
    THEN value.exit_code = r.result.failed_exit_code_and_stderr[1] /\ value.stderr = r.result.failed_exit_code_and_stderr[2]
    ELSE /\ "exit_code" \in DOMAIN r.result
         /\ value.exit_code = r.result.exit_code /\ value.stderr = r.result.stderr[1]

\* The test mains that run_go_tests has got.
TestMains == {go.results[j].result : j \in {i \in 1..Len(go.results) : go.results[i].stage = "testmain"}}

\* C30: run_go_tests does not raise for a failure of a stage that compiles:
\* it returns a test result with the exit code and the stderr of a failed
\* stage and has requested no stage after it; a test main without tests and
\* xtests gives a skip result and no build stage; the build request of the
\* xtests is requested only for a test main with xtests.
C30_CompilationFailureIsReturned ==
    go.pc = "done" =>
        LET failures == {j \in 1..Len(go.results) : go.results[j].stage \in CompilationStages /\ StageFailed(go.results[j])}
            stages == {go.stages[j] : j \in 1..Len(go.stages)}
        IN /\ failures # {} =>
                /\ go.out.kind = "value"
                /\ ~go.out.value.skipped
                /\ \E j \in failures :
                    /\ Carries(go.out.value, go.results[j])
                    /\ \A s \in stages : StageOrder(s) <= StageOrder(go.results[j].stage)
           /\ \A testmain \in TestMains :
                /\ testmain.failed_exit_code_and_stderr = <<>> /\ ~testmain.has_tests /\ ~testmain.has_xtests =>
                    go.out = Returns(TestResultSkip) /\ stages \cap BuildStages = {}
                /\ "xtest_pkg_request" \in stages => testmain.has_xtests

====
